---- MODULE Spec2Model ----
(***************************************************************************)
(* Model of the S2RTool browser front end: the page controllers of         *)
(*   src/frontend/planning-detail-script.js  (planning-detail page),       *)
(*   src/frontend/planning-script.js         (planning page + utils.js),   *)
(*   src/unnamed/part_000                    (settings page, settings.js). *)
(* A browser document loads one of the three page scripts, or utils.js on  *)
(* its own, so the variable `page` fixes which code runs; the globals and  *)
(* DOM state of the others keep their initial values.  Every asynchronous  *)
(* step (FileReader load, fetch settling, response.json() settling, timer) *)
(* is an action of its own, so all interleavings of the event loop are     *)
(* explored.                                                               *)
(***************************************************************************)
EXTENDS Integers, Sequences, FiniteSets, Bags, TLC

VARIABLES
    page,                  \* which script the document has loaded
    \* ---- planning-detail-script.js ----
    currentSketchImage,    \* let currentSketchImage (null or data URL)
    currentRenderedImage,  \* let currentRenderedImage
    isRendering,           \* let isRendering
    generateButtonDisabled,\* generateButton.disabled
    renderError,           \* #renderError  [hidden, text]
    gallery,               \* children of #gallery: sequence of img src
    outputControlsHidden,  \* #outputControls has class hidden
    fields,                \* values of the four validated form inputs
    qualityLevel,          \* #quality_level.value
    qualityPresets,        \* .checked of the eight quality checkboxes
    analyzeButtonDisabled, \* #analyzeSketchButton.disabled
    sketchReads,           \* files a FileReader is still reading
    renderCalls,           \* suspended generateRender() calls
    analyzeCalls,          \* suspended analyzeSketch() calls
    \* ---- planning-script.js ----
    currentSitePlanImage,  \* let currentSitePlanImage
    currentLotMapImage,    \* let currentLotMapImage
    isPlanningRendering,   \* let isPlanningRendering
    generatePlanningBtn,   \* #generatePlanningBtn [disabled, label]
    addLotBtnDisabled,     \* #addLotBtn.disabled
    lotCards,              \* .lot-card children of #lotCardsContainer
    planningError,         \* what #planningError displays
    planningGallery,       \* children of #planningGallery: sequence of img src
    planningControlsHidden,\* #planningOutputControls has class hidden
    uploadInputs,          \* files[0] of #uploadSitePlan and #uploadLotMap
    uploads,               \* suspended handleSitePlanUpload/handleLotMapUpload
    planningCalls,         \* suspended generatePlanningRender() calls
    \* ---- settings.js ----
    currentSettings,       \* let currentSettings
    settingsForm,          \* the settings the populate* functions last wrote
    apiKeyInput,           \* #apiKeyInput.value
    buttonsDisabled,       \* .disabled of #testApiKeyBtn, #saveBtn, #resetBtn
    loadCalls,             \* suspended loadSettings() calls
    postCalls,             \* bag of suspended testApiKey/saveSettings/resetSettings
    reloadTimers,          \* pending setTimeout(() => loadSettings(), 1500)
    \* ---- utils.js, in a document that calls its helpers ----
    image,                 \* [width, height] of the file given to the optimizer
    optimized,             \* the promise optimizeImageForUpload returned
    successEl,             \* the success message element [hidden, text]
    hideTimers,            \* pending setTimeout(() => add('hidden'), autoHideMs)
    lastShow,              \* the showSuccess call no hideSuccess call followed
    \* ---- what the step just taken did (observation, read by no handler) ----
    step                   \* [click, sent, warn]

detailVars == <<currentSketchImage, currentRenderedImage, isRendering,
                generateButtonDisabled, renderError, gallery,
                outputControlsHidden, fields, qualityLevel, qualityPresets,
                analyzeButtonDisabled, sketchReads, renderCalls, analyzeCalls>>

planningVars == <<currentSitePlanImage, currentLotMapImage,
                  isPlanningRendering, generatePlanningBtn, addLotBtnDisabled,
                  lotCards, planningError, planningGallery,
                  planningControlsHidden, uploadInputs, uploads,
                  planningCalls>>

settingsVars == <<currentSettings, settingsForm, apiKeyInput, buttonsDisabled,
                  loadCalls, postCalls, reloadTimers>>

utilsVars == <<image, optimized, successEl, hideTimers, lastShow>>

vars == <<page, detailVars, planningVars, settingsVars, utilsVars, step>>

----------------------------------------------------------------------------
(* Bounds of the model *)

\* suspended calls of one async function kept at the same time
MaxCalls == 2
\* lot cards in #lotCardsContainer at the same time
MaxLots == 2
\* uploads of the planning page being processed at the same time
MaxUploads == 2
\* reload timers of the settings page pending at the same time
MaxTimers == 1
\* hide timers of one success element pending at the same time
MaxHideTimers == 2

----------------------------------------------------------------------------
(* Values *)

\* JavaScript strings are sequences of fragments; null and undefined are
\* two values no string equals
NULL == <<"null">>
UNDEF == <<"undefined">>

Pages == {"detail", "planning", "settings", "utils"}

\* files the user can pick in #uploadSketch
Files == {"f1"}
\* files the user can pick in #uploadSitePlan, and in #uploadLotMap
PlanFiles == {"p1", "p2"}
LotMapFiles == {"p1"}
\* files[0] of a file input in which nothing was selected
NoFile == "none"

\* FileReader.readAsDataURL: the data URL of the bytes that were read
DataURL(f) == <<"data:", f>>

\* text typed into inputs: sequences of characters
Texts == {<<>>, <<" ">>, <<"a">>}
Numbers == {<<>>, <<"3">>}

IsSpace(c) == c = " "

RECURSIVE TrimStart(_)
TrimStart(s) ==
    IF s # <<>> /\ IsSpace(Head(s)) THEN TrimStart(Tail(s)) ELSE s

RECURSIVE TrimEnd(_)
TrimEnd(s) ==
    IF s # <<>> /\ IsSpace(s[Len(s)])
    THEN TrimEnd(SubSeq(s, 1, Len(s) - 1))
    ELSE s

\* String.prototype.trim
Trim(s) == TrimEnd(TrimStart(s))

\* JavaScript truthiness of a string or of undefined/null
Truthy(v) == v # <<>> /\ v # UNDEF /\ v # NULL

\* What a message element (#renderError, #planningError) displays.  An element
\* with the class "hidden" displays nothing; the textContent it still holds is
\* read by no code and is overwritten by the next showError, so it is not kept.
NoText == <<>>
Hidden == [hidden |-> TRUE, text |-> NoText]
Shown(message) == [hidden |-> FALSE, text |-> message]

RemoveAt(s, i) == SubSeq(s, 1, i - 1) \o SubSeq(s, i + 1, Len(s))

----------------------------------------------------------------------------
(* What a step did *)

PostEndpoints ==
    {"detail-render", "analyze-sketch", "render", "settings",
     "settings/reset", "settings/test-api-key"}
GetSettings == "GET settings"

\* click: the endpoint whose button the step handled a click on, or "none";
\* sent: the endpoints the step issued a request to, in order;
\* warn: the console.warn line the step wrote, or "none";
\* received: generated_image_base64 of the OK body the step parsed, or UNDEF;
\* refused: the body of the non-OK response the step handled, if any;
\* payload: planning_data of the detail-render request the step sent, if any;
\* saved: the members of the POST /settings body the step sent that depend
\*        on #apiKeyInput (api_key = UNDEF: JSON.stringify left it out);
\* alert: the type of the alert saveSettings showed when it finished, or
\*        "none" (the alerts of the other handlers are not observed)
NoRefusal == [is |-> FALSE, json |-> FALSE, error |-> UNDEF]
NoPayload ==
    [planning_description |-> UNDEF,
     quality_presets |->
        [global_illumination |-> UNDEF, soft_shadows |-> UNDEF,
         hdri_sky |-> UNDEF, reflections |-> UNDEF, depth_of_field |-> UNDEF,
         bloom |-> UNDEF, color_correction |-> UNDEF, desaturate |-> UNDEF],
     structured_data |->
        [overall_description |-> UNDEF,
         highrise_zone |-> [count |-> UNDEF, floors |-> UNDEF]]]
Refusal(isOk, body) ==
    IF isOk THEN NoRefusal
    ELSE [is |-> TRUE, json |-> body.json, error |-> body.error]
Step(click, sent, warn) ==
    [click |-> click, sent |-> sent, warn |-> warn, received |-> UNDEF,
     refused |-> NoRefusal, payload |-> NoPayload,
     saved |-> [api_key |-> UNDEF], alert |-> "none"]
NoStep == Step("none", <<>>, "none")
Received(data) == [NoStep EXCEPT !.received = data]
Refused(refusal) == [NoStep EXCEPT !.refused = refusal]
Alerted(type) == [NoStep EXCEPT !.alert = type]

----------------------------------------------------------------------------
(* HTTP responses *)

RenderData == {<<"r1">>, <<"r2">>}
ServerErrors == {<<"m1">>}

\* message of the TypeError fetch() rejects with when the network fails
NetworkErrorMessage == <<"Failed to fetch">>
\* message of the SyntaxError response.json() rejects with
JsonParseMessage == <<"Unexpected token < in JSON at position 0">>
\* message of the TypeError thrown when a property of undefined is read
TypeErrorMessage == <<"Cannot read properties of undefined">>

\* the status line of a response; fetch resolves on every status
Response(isOk) ==
    IF isOk THEN [ok |-> TRUE, status |-> "200", statusText |-> "OK"]
    ELSE [ok |-> FALSE, status |-> "500",
          statusText |-> "Internal Server Error"]

\* bodies of /planning/detail-render and /planning/render; json = FALSE is a
\* body response.json() rejects on
RenderBody(isJson, err, data, mime) ==
    [json |-> isJson, error |-> err, generated_image_base64 |-> data,
     mime_type |-> mime]
RenderJson(d) == RenderBody(TRUE, UNDEF, d, <<"image/png">>)
RenderNotJson == RenderBody(FALSE, UNDEF, UNDEF, UNDEF)
RenderBodies(isOk) ==
    IF isOk THEN {RenderJson(d) : d \in RenderData} \cup {RenderNotJson}
    ELSE {RenderBody(TRUE, m, UNDEF, UNDEF) : m \in ServerErrors \cup {UNDEF}}
         \cup {RenderNotJson}

\* the analysis object of /planning/analyze-sketch (defined = FALSE: the
\* property is absent from its parent)
HighriseZone(isDefined, c, fl) ==
    [defined |-> isDefined, count |-> c, floors |-> fl]
Analysis(isDefined, overall, hr) ==
    [defined |-> isDefined, overall_description |-> overall,
     highrise_zone |-> hr]
AnalysisFull == Analysis(TRUE, <<"a">>, HighriseZone(TRUE, <<"3">>, <<"3">>))
AnalysisEmpty == Analysis(TRUE, UNDEF, HighriseZone(FALSE, UNDEF, UNDEF))
AnalysisMissing == Analysis(FALSE, UNDEF, HighriseZone(FALSE, UNDEF, UNDEF))

AnalyzeBody(isJson, err, a) == [json |-> isJson, error |-> err, analysis |-> a]
AnalyzeNotJson == AnalyzeBody(FALSE, UNDEF, AnalysisMissing)
AnalyzeBodies(isOk) ==
    IF isOk
    THEN {AnalyzeBody(TRUE, UNDEF, a) :
             a \in {AnalysisFull, AnalysisEmpty, AnalysisMissing}}
         \cup {AnalyzeNotJson}
    ELSE {AnalyzeBody(TRUE, m, AnalysisMissing) : m \in ServerErrors \cup {UNDEF}}
         \cup {AnalyzeNotJson}

\* a call of an async function suspended at `await fetch(...)`
AtFetch == [stage |-> "fetch", ok |-> FALSE]
\* ... suspended at `await response.json()` of a response with response.ok = isOk
AtJson(isOk) == [stage |-> "json", ok |-> isOk]

----------------------------------------------------------------------------
(* planning-detail-script.js *)

\* one bundle of the eight rendering toggles
Toggles(gi, shadows, hdri, reflection, dof, bloom, correction, desaturate) ==
    [global_illumination |-> gi, soft_shadows |-> shadows, hdri_sky |-> hdri,
     reflections |-> reflection, depth_of_field |-> dof, bloom |-> bloom,
     color_correction |-> correction, desaturate |-> desaturate]

\* the table `presets` of applyQualityPreset
presets ==
    [standard |->
        Toggles(TRUE, TRUE, FALSE, TRUE, FALSE, FALSE, TRUE, FALSE),
     high_fidelity |->
        Toggles(TRUE, TRUE, TRUE, TRUE, TRUE, TRUE, TRUE, TRUE),
     ultra_realism |->
        Toggles(TRUE, TRUE, TRUE, TRUE, TRUE, TRUE, TRUE, TRUE)]

\* values of the options of #quality_level: the three levels of the table
\* and a level the table does not have
QualityLevels == {"standard", "high_fidelity", "ultra_realism", "draft"}

\* the page's markup: #generateRenderButton ships disabled ("submit controls
\* are disabled until required inputs are present"), the message element and
\* the output controls (which hold #regenerateBtn) ship hidden, the gallery
\* and the inputs empty, #quality_level on high_fidelity with the checkboxes
\* of that level
DetailMarkup ==
    /\ generateButtonDisabled = TRUE
    /\ analyzeButtonDisabled = FALSE
    /\ renderError = Hidden
    /\ gallery = <<>>
    /\ outputControlsHidden = TRUE
    /\ fields = [custom_description |-> <<>>, overall_description |-> <<>>,
                 highrise_count |-> <<>>, highrise_floors |-> <<>>]
    /\ qualityLevel = "high_fidelity"
    /\ qualityPresets = presets.high_fidelity

\* the script's globals as declared; no call is suspended yet
DetailInit ==
    /\ currentSketchImage = NULL
    /\ currentRenderedImage = NULL
    /\ isRendering = FALSE
    /\ DetailMarkup
    /\ sketchReads = {}
    /\ renderCalls = <<>>
    /\ analyzeCalls = <<>>

\* handleImageUpload enabling the button at the change event, before the
\* FileReader has delivered the sketch
handleImageUploadEager(f) ==
    /\ page = "detail"
    /\ f \notin sketchReads
    /\ sketchReads' = sketchReads \cup {f}
    /\ generateButtonDisabled' = FALSE
    /\ step' = NoStep
    /\ UNCHANGED <<page, utilsVars, planningVars, settingsVars, qualityLevel, qualityPresets,
                   currentSketchImage,
                   currentRenderedImage, isRendering, renderError, gallery,
                   outputControlsHidden, fields, analyzeButtonDisabled,
                   renderCalls, analyzeCalls>>

\* handleImageUpload: the change event of #uploadSketch with a file chosen
handleImageUpload(f) ==
    /\ page = "detail"
    /\ f \notin sketchReads
    /\ sketchReads' = sketchReads \cup {f}
    /\ step' = NoStep
    /\ UNCHANGED <<page, utilsVars, planningVars, settingsVars, qualityLevel, qualityPresets,
                   currentSketchImage, currentRenderedImage, isRendering,
                   generateButtonDisabled, renderError, gallery,
                   outputControlsHidden, fields, analyzeButtonDisabled,
                   renderCalls, analyzeCalls>>

\* reader.onload of handleImageUpload
SketchReaderOnload(f) ==
    /\ page = "detail"
    /\ f \in sketchReads
    /\ sketchReads' = sketchReads \ {f}
    /\ currentSketchImage' = DataURL(f)
    /\ generateButtonDisabled' = FALSE
    /\ step' = NoStep
    /\ UNCHANGED <<page, utilsVars, planningVars, settingsVars, qualityLevel, qualityPresets,
                   currentRenderedImage, isRendering, renderError,
                   gallery, outputControlsHidden, fields,
                   analyzeButtonDisabled, renderCalls, analyzeCalls>>

\* the FileReader fails: no onerror handler is installed, nothing runs
SketchReaderError(f) ==
    /\ page = "detail"
    /\ f \in sketchReads
    /\ sketchReads' = sketchReads \ {f}
    /\ step' = NoStep
    /\ UNCHANGED <<page, utilsVars, planningVars, settingsVars, qualityLevel, qualityPresets,
                   currentSketchImage, currentRenderedImage, isRendering,
                   generateButtonDisabled, renderError, gallery,
                   outputControlsHidden, fields, analyzeButtonDisabled,
                   renderCalls, analyzeCalls>>

FieldValues(name) ==
    IF name \in {"custom_description", "overall_description"}
    THEN Texts ELSE Numbers

\* the user edits one of the validated inputs (no listener is attached)
EditField(name, v) ==
    /\ page = "detail"
    /\ v \in FieldValues(name)
    /\ fields[name] # v
    /\ fields' = [fields EXCEPT ![name] = v]
    /\ step' = NoStep
    /\ UNCHANGED <<page, utilsVars, planningVars, settingsVars, qualityLevel, qualityPresets,
                   currentSketchImage, currentRenderedImage, isRendering,
                   generateButtonDisabled, renderError, gallery,
                   outputControlsHidden, analyzeButtonDisabled, sketchReads,
                   renderCalls, analyzeCalls>>

\* `presets[level] || presets.high_fidelity` with the fallback only for a
\* level missing from the table that is also not "draft"
PresetForKnown(level) ==
    IF level \in DOMAIN presets \cup {"draft"}
    THEN (IF level = "draft" THEN presets.standard ELSE presets[level])
    ELSE presets.high_fidelity

\* `presets[level] || presets.high_fidelity`
PresetFor(level) ==
    IF level \in DOMAIN presets THEN presets[level]
    ELSE presets.high_fidelity

\* the change event of #quality_level, whose listener calls
\* applyQualityPreset(e.target.value)
applyQualityPreset(level) ==
    /\ page = "detail"
    /\ level # qualityLevel
    /\ qualityLevel' = level
    /\ qualityPresets' = PresetFor(level)
    /\ step' = NoStep
    /\ UNCHANGED <<page, utilsVars, planningVars, settingsVars,
                   currentSketchImage, currentRenderedImage, isRendering,
                   generateButtonDisabled, renderError, gallery,
                   outputControlsHidden, fields, analyzeButtonDisabled,
                   sketchReads, renderCalls, analyzeCalls>>

\* the option texts of the selects and the value of #scale, which the model
\* leaves at their markup state; the other inputs buildDescriptionFromFields
\* reads are left empty or unchecked
ScaleValue == "scale"
ProjectTypeText == "project_type"
HighriseStyleText == "highrise_style"
TreeTypeText == "tree_type"
RoadPatternText == "road_pattern"

\* parts.join('. ')
RECURSIVE Join(_)
Join(parts) ==
    IF Len(parts) = 0 THEN <<>>
    ELSE IF Len(parts) = 1 THEN parts[1]
    ELSE parts[1] \o <<". ">> \o Join(Tail(parts))

\* buildDescriptionFromFields: the description built from the structured
\* inputs
buildDescriptionFromFields ==
    LET overall == Trim(fields.overall_description)
        hrCount == Trim(fields.highrise_count)
        hrFloors == Trim(fields.highrise_floors)
        head == << <<"Quy hoach ", ScaleValue, " ", ProjectTypeText>> >>
        overallPart == IF Truthy(overall) THEN <<overall>> ELSE <<>>
        hrPart ==
            IF Truthy(hrCount) \/ Truthy(hrFloors)
            THEN << <<"Phan khu cao tang:">>
                    \o (IF Truthy(hrCount)
                        THEN <<" ">> \o hrCount \o <<" toa">> ELSE <<>>)
                    \o (IF Truthy(hrFloors)
                        THEN <<", moi toa ">> \o hrFloors \o <<" tang">>
                        ELSE <<>>)
                    \o <<". ", HighriseStyleText>> >>
            ELSE <<>>
        landPart == << <<"Canh quan:", " Cay xanh: ", TreeTypeText,
                        ". Giao thong: ", RoadPatternText>> >>
    IN Join(head \o overallPart \o hrPart \o landPart) \o <<".">>

\* collectFormData testing the custom description before trimming it
collectFormDataUntrimmed ==
    [planning_description |->
        IF Truthy(fields.custom_description)
        THEN fields.custom_description ELSE buildDescriptionFromFields,
     quality_presets |-> qualityPresets,
     structured_data |->
        [overall_description |-> fields.overall_description,
         highrise_zone |-> [count |-> fields.highrise_count,
                            floors |-> fields.highrise_floors]]]

\* collectFormData: planning_description and structured_data of the payload
collectFormData ==
    LET customDescription == Trim(fields.custom_description) IN
    [planning_description |->
        IF Truthy(customDescription)
        THEN customDescription ELSE buildDescriptionFromFields,
     quality_presets |-> qualityPresets,
     structured_data |->
        [overall_description |-> fields.overall_description,
         highrise_zone |-> [count |-> fields.highrise_count,
                            floors |-> fields.highrise_floors]]]

\* the step of generateRender that passed the checks and called fetch
Sent(planning_data) ==
    [Step("detail-render", <<"detail-render">>, "none")
        EXCEPT !.payload = planning_data]

\* the validation of generateRender: custom description, overall description
\* or a high-rise count/floors value is present after trimming
HasDescription ==
    \/ Truthy(Trim(fields.custom_description))
    \/ Truthy(Trim(fields.overall_description))
    \/ Truthy(Trim(fields.highrise_count))
    \/ Truthy(Trim(fields.highrise_floors))

\* generateRender without the isRendering check
generateRenderUnguarded ==
    IF ~Truthy(currentSketchImage)
    THEN /\ renderError' = Shown(<<"Vui long upload sketch truoc!">>)
         /\ step' = Step("detail-render", <<>>, "none")
         /\ UNCHANGED <<isRendering, generateButtonDisabled, renderCalls>>
    ELSE IF ~HasDescription
    THEN /\ renderError' =
                Shown(<<"Vui long dien thong tin (nhan Analyze hoac dien thu cong)!">>)
         /\ step' = Step("detail-render", <<>>, "none")
         /\ UNCHANGED <<isRendering, generateButtonDisabled, renderCalls>>
    ELSE /\ isRendering' = TRUE
         /\ generateButtonDisabled' = TRUE
         /\ renderError' = Hidden
         /\ renderCalls' = Append(renderCalls, AtFetch)
         /\ step' = Sent(collectFormData)

\* generateRender without the validation of the description inputs
generateRenderUnvalidated ==
    IF ~Truthy(currentSketchImage)
    THEN /\ renderError' = Shown(<<"Vui long upload sketch truoc!">>)
         /\ step' = Step("detail-render", <<>>, "none")
         /\ UNCHANGED <<isRendering, generateButtonDisabled, renderCalls>>
    ELSE IF isRendering
    THEN /\ step' = Step("detail-render", <<>>,
                         "Rendering already in progress")
         /\ UNCHANGED <<isRendering, generateButtonDisabled, renderError,
                        renderCalls>>
    ELSE /\ isRendering' = TRUE
         /\ generateButtonDisabled' = TRUE
         /\ renderError' = Hidden
         /\ renderCalls' = Append(renderCalls, AtFetch)
         /\ step' = Sent(collectFormData)

\* generateRender up to its first await, run for a click
generateRender ==
    IF ~Truthy(currentSketchImage)
    THEN /\ renderError' = Shown(<<"Vui long upload sketch truoc!">>)
         /\ step' = Step("detail-render", <<>>, "none")
         /\ UNCHANGED <<isRendering, generateButtonDisabled, renderCalls>>
    ELSE IF isRendering
    THEN /\ step' = Step("detail-render", <<>>,
                         "Rendering already in progress")
         /\ UNCHANGED <<isRendering, generateButtonDisabled, renderError,
                        renderCalls>>
    ELSE IF ~HasDescription
    THEN /\ renderError' =
                Shown(<<"Vui long dien thong tin (nhan Analyze hoac dien thu cong)!">>)
         /\ step' = Step("detail-render", <<>>, "none")
         /\ UNCHANGED <<isRendering, generateButtonDisabled, renderCalls>>
    ELSE /\ isRendering' = TRUE
         /\ generateButtonDisabled' = TRUE
         /\ renderError' = Hidden
         /\ renderCalls' = Append(renderCalls, AtFetch)
         /\ step' = Sent(collectFormData)

\* click on #generateRenderButton (a disabled button fires no click event)
GenerateClick ==
    /\ page = "detail"
    /\ ~generateButtonDisabled
    /\ Len(renderCalls) < MaxCalls
    /\ generateRender
    /\ UNCHANGED <<page, utilsVars, planningVars, settingsVars, qualityLevel, qualityPresets,
                   currentSketchImage, currentRenderedImage, gallery,
                   outputControlsHidden, fields, analyzeButtonDisabled,
                   sketchReads, analyzeCalls>>

\* click on #regenerateBtn, which sits in the output controls
RegenerateClick ==
    /\ page = "detail"
    /\ ~outputControlsHidden
    /\ Len(renderCalls) < MaxCalls
    /\ generateRender
    /\ UNCHANGED <<page, utilsVars, planningVars, settingsVars, qualityLevel, qualityPresets,
                   currentSketchImage, currentRenderedImage, gallery,
                   outputControlsHidden, fields, analyzeButtonDisabled,
                   sketchReads, analyzeCalls>>

\* a catch block of generateRender that also empties the gallery
renderCatchClearsGallery(i, message, refusal) ==
    /\ renderError' = Shown(<<"Loi khi render: ">> \o message)
    /\ isRendering' = FALSE
    /\ generateButtonDisabled' = FALSE
    /\ renderCalls' = RemoveAt(renderCalls, i)
    /\ step' = Refused(refusal)
    /\ gallery' = <<>>
    /\ currentRenderedImage' = NULL
    /\ UNCHANGED <<page, utilsVars, planningVars, settingsVars, qualityLevel, qualityPresets,
                   currentSketchImage,
                   outputControlsHidden, fields, analyzeButtonDisabled,
                   sketchReads, analyzeCalls>>

\* catch and finally of generateRender, for the call at position i
renderCatch(i, message, refusal) ==
    /\ renderError' = Shown(<<"Loi khi render: ">> \o message)
    /\ isRendering' = FALSE
    /\ generateButtonDisabled' = FALSE
    /\ renderCalls' = RemoveAt(renderCalls, i)
    /\ step' = Refused(refusal)
    /\ UNCHANGED <<page, utilsVars, planningVars, settingsVars, qualityLevel, qualityPresets,
                   currentSketchImage, currentRenderedImage, gallery,
                   outputControlsHidden, fields, analyzeButtonDisabled,
                   sketchReads, analyzeCalls>>

\* displayRenderedImage without `gallery.innerHTML = ''`
displayRenderedImageAppend(base64Image) == Append(gallery, base64Image)

\* displayRenderedImage: the children of #gallery after the call
displayRenderedImage(base64Image) == <<base64Image>>

\* the rest of the try block after a parsed OK body, with no finally block
renderDisplayNoFinally(i, data) ==
    /\ currentRenderedImage' = data.generated_image_base64
    /\ gallery' = displayRenderedImage(data.generated_image_base64)
    /\ outputControlsHidden' = FALSE
    /\ renderCalls' = RemoveAt(renderCalls, i)
    /\ step' = Received(data.generated_image_base64)
    /\ UNCHANGED <<page, utilsVars, planningVars, settingsVars, qualityLevel, qualityPresets,
                   currentSketchImage, renderError, fields, isRendering,
                   generateButtonDisabled,
                   analyzeButtonDisabled, sketchReads, analyzeCalls>>

\* the rest of the try block after a parsed OK body, then finally
renderDisplay(i, data) ==
    /\ currentRenderedImage' = data.generated_image_base64
    /\ gallery' = displayRenderedImage(data.generated_image_base64)
    /\ outputControlsHidden' = FALSE
    /\ isRendering' = FALSE
    /\ generateButtonDisabled' = FALSE
    /\ renderCalls' = RemoveAt(renderCalls, i)
    /\ step' = Received(data.generated_image_base64)
    /\ UNCHANGED <<page, utilsVars, planningVars, settingsVars, qualityLevel, qualityPresets,
                   currentSketchImage, renderError, fields,
                   analyzeButtonDisabled, sketchReads, analyzeCalls>>

\* `await fetch(...)` of generateRender rejects
RenderFetchRejects(i) ==
    /\ page = "detail"
    /\ i \in DOMAIN renderCalls
    /\ renderCalls[i].stage = "fetch"
    /\ renderCatch(i, NetworkErrorMessage, NoRefusal)

\* `await fetch(...)` of generateRender resolves, response.ok = isOk
RenderFetchResolves(i, isOk) ==
    /\ page = "detail"
    /\ i \in DOMAIN renderCalls
    /\ renderCalls[i].stage = "fetch"
    /\ renderCalls' = [renderCalls EXCEPT ![i] = AtJson(isOk)]
    /\ step' = NoStep
    /\ UNCHANGED <<page, utilsVars, planningVars, settingsVars, qualityLevel, qualityPresets,
                   currentSketchImage, currentRenderedImage, isRendering,
                   generateButtonDisabled, renderError, gallery,
                   outputControlsHidden, fields, analyzeButtonDisabled,
                   sketchReads, analyzeCalls>>

\* the thrown message without errorData.error
RenderErrorTextStatus(r, body) == <<"Server error: ", r.status>>

\* errorData.error || `Server error: ${response.status}`
RenderErrorText(r, body) ==
    IF Truthy(body.error) THEN body.error ELSE <<"Server error: ", r.status>>

\* `await response.json()` of generateRender settles on body
RenderBodySettles(i, body) ==
    /\ page = "detail"
    /\ i \in DOMAIN renderCalls
    /\ renderCalls[i].stage = "json"
    /\ body \in RenderBodies(renderCalls[i].ok)
    /\ IF ~body.json THEN renderCatch(i, JsonParseMessage,
                 Refusal(renderCalls[i].ok, body))
       ELSE IF ~renderCalls[i].ok
       THEN renderCatch(i, RenderErrorText(Response(FALSE), body),
                        Refusal(FALSE, body))
       ELSE renderDisplay(i, body)

\* analyzeSketch up to its first await: click on #analyzeSketchButton
AnalyzeClick ==
    /\ page = "detail"
    /\ ~analyzeButtonDisabled
    /\ Len(analyzeCalls) < MaxCalls
    /\ IF ~Truthy(currentSketchImage)
       THEN /\ renderError' = Shown(<<"Vui long upload sketch truoc!">>)
            /\ step' = Step("analyze-sketch", <<>>, "none")
            /\ UNCHANGED <<analyzeButtonDisabled, analyzeCalls>>
       ELSE /\ analyzeButtonDisabled' = TRUE
            /\ renderError' = Hidden
            /\ analyzeCalls' = Append(analyzeCalls, AtFetch)
            /\ step' = Step("analyze-sketch", <<"analyze-sketch">>, "none")
    /\ UNCHANGED <<page, utilsVars, planningVars, settingsVars, qualityLevel, qualityPresets,
                   currentSketchImage, currentRenderedImage, isRendering,
                   generateButtonDisabled, gallery, outputControlsHidden,
                   fields, sketchReads, renderCalls>>

\* catch and finally of analyzeSketch, for the call at position i
analyzeCatch(i, message, refusal) ==
    /\ renderError' = Shown(<<"Loi phan tich: ">> \o message)
    /\ analyzeButtonDisabled' = FALSE
    /\ analyzeCalls' = RemoveAt(analyzeCalls, i)
    /\ step' = Refused(refusal)
    /\ UNCHANGED <<page, utilsVars, planningVars, settingsVars, qualityLevel, qualityPresets,
                   currentSketchImage, currentRenderedImage, isRendering,
                   generateButtonDisabled, gallery, outputControlsHidden,
                   fields, sketchReads, renderCalls>>

\* fillFormFromAnalysis: the validated inputs after the call
fillFormFromAnalysis(analysis) ==
    LET hr == analysis.highrise_zone IN
    [custom_description |-> fields.custom_description,
     overall_description |->
        IF Truthy(analysis.overall_description)
        THEN analysis.overall_description ELSE fields.overall_description,
     highrise_count |->
        IF hr.defined /\ Truthy(hr.count)
        THEN hr.count ELSE fields.highrise_count,
     highrise_floors |->
        IF hr.defined /\ Truthy(hr.floors)
        THEN hr.floors ELSE fields.highrise_floors]

\* `await fetch(...)` of analyzeSketch rejects
AnalyzeFetchRejects(i) ==
    /\ page = "detail"
    /\ i \in DOMAIN analyzeCalls
    /\ analyzeCalls[i].stage = "fetch"
    /\ analyzeCatch(i, NetworkErrorMessage, NoRefusal)

\* `await fetch(...)` of analyzeSketch resolves, response.ok = isOk
AnalyzeFetchResolves(i, isOk) ==
    /\ page = "detail"
    /\ i \in DOMAIN analyzeCalls
    /\ analyzeCalls[i].stage = "fetch"
    /\ analyzeCalls' = [analyzeCalls EXCEPT ![i] = AtJson(isOk)]
    /\ step' = NoStep
    /\ UNCHANGED <<page, utilsVars, planningVars, settingsVars, qualityLevel, qualityPresets,
                   currentSketchImage, currentRenderedImage, isRendering,
                   generateButtonDisabled, renderError, gallery,
                   outputControlsHidden, fields, analyzeButtonDisabled,
                   sketchReads, renderCalls>>

\* `await response.json()` of analyzeSketch settles on body
AnalyzeBodySettles(i, body) ==
    /\ page = "detail"
    /\ i \in DOMAIN analyzeCalls
    /\ analyzeCalls[i].stage = "json"
    /\ body \in AnalyzeBodies(analyzeCalls[i].ok)
    /\ IF ~body.json THEN analyzeCatch(i, JsonParseMessage,
                 Refusal(analyzeCalls[i].ok, body))
       ELSE IF ~analyzeCalls[i].ok
       THEN analyzeCatch(i, IF Truthy(body.error) THEN body.error
                            ELSE <<"Analyze failed">>,
                         Refusal(FALSE, body))
       ELSE IF ~body.analysis.defined
       THEN analyzeCatch(i, TypeErrorMessage, NoRefusal)
       ELSE /\ fields' = fillFormFromAnalysis(body.analysis)
            /\ analyzeButtonDisabled' = FALSE
            /\ analyzeCalls' = RemoveAt(analyzeCalls, i)
            /\ step' = NoStep
            /\ UNCHANGED <<page, utilsVars, planningVars, settingsVars, qualityLevel, qualityPresets,
                   currentSketchImage, currentRenderedImage,
                           isRendering, generateButtonDisabled, renderError,
                           gallery, outputControlsHidden, sketchReads,
                           renderCalls>>

\* uploading, filling the form and rendering
DetailRenderNext ==
    \/ \E f \in Files : handleImageUpload(f)
    \/ \E f \in Files : SketchReaderOnload(f)
    \/ \E f \in Files : SketchReaderError(f)
    \/ \E name \in DOMAIN fields : \E v \in Texts \cup Numbers :
            EditField(name, v)
    \/ GenerateClick
    \/ RegenerateClick
    \/ \E i \in 1..MaxCalls : RenderFetchRejects(i)
    \/ \E i \in 1..MaxCalls : \E isOk \in BOOLEAN : RenderFetchResolves(i, isOk)
    \/ \E i \in 1..MaxCalls : \E body \in RenderBodies(TRUE) \cup RenderBodies(FALSE) :
            RenderBodySettles(i, body)

DetailNext ==
    \/ DetailRenderNext
    \/ \E level \in QualityLevels : applyQualityPreset(level)
    \/ AnalyzeClick
    \/ \E i \in 1..MaxCalls : AnalyzeFetchRejects(i)
    \/ \E i \in 1..MaxCalls : \E isOk \in BOOLEAN : AnalyzeFetchResolves(i, isOk)
    \/ \E i \in 1..MaxCalls :
         \E body \in AnalyzeBodies(TRUE) \cup AnalyzeBodies(FALSE) :
            AnalyzeBodySettles(i, body)

----------------------------------------------------------------------------
(* planning-script.js *)

\* innerHTML of #generatePlanningBtn
LabelIdle == "Generate Planning Render"
LabelBusy == "Dang render..."

\* value a new card's .lot-number-input gets: `${lotNumber}`
Numeral(n) == <<ToString(n)>>

\* values the user types into a .lot-number-input
NumberEdits == {<<>>}
\* values the user types into a .lot-description-input
LotTexts == {<<>>, <<"a">>}

\* optimizeImageForUpload: the PNG blob canvas.toBlob hands to resolve
Optimized(f) == <<"image/png", f>>

\* reader.readAsDataURL(blob): e.target.result
BlobURL(blob) == <<"data:">> \o blob

\* the page's markup: #generatePlanningBtn and #addLotBtn ship disabled
\* ("submit controls are disabled until required inputs are present"), the
\* message element and the output controls (which hold #regeneratePlanningBtn)
\* ship hidden, the gallery and #lotCardsContainer empty
PlanningMarkup ==
    /\ generatePlanningBtn = [disabled |-> TRUE, label |-> LabelIdle]
    /\ addLotBtnDisabled = TRUE
    /\ lotCards = <<>>
    /\ planningError = Hidden
    /\ planningGallery = <<>>
    /\ planningControlsHidden = TRUE

\* the script's globals as declared; no call is suspended yet
PlanningInit ==
    /\ currentSitePlanImage = NULL
    /\ currentLotMapImage = NULL
    /\ isPlanningRendering = FALSE
    /\ PlanningMarkup
    /\ uploadInputs = [sitePlan |-> NoFile, lotMap |-> NoFile]
    /\ uploads = {}
    /\ planningCalls = <<>>

\* updateGenerateButton: generateBtn.disabled for the given globals and cards
updateGenerateButton(sitePlan, lotMap, cards) ==
    LET hasSitePlan == sitePlan # NULL
        hasLotMap == lotMap # NULL
        hasLots == Len(cards) > 0
        hasDescriptions ==
            \E k \in DOMAIN cards : Trim(cards[k].description) # <<>>
    IN ~(hasSitePlan /\ hasLotMap /\ hasLots /\ hasDescriptions)

\* collectLotDescriptions pushing every card that has a description, whatever
\* its lot number
RECURSIVE collectLotDescriptionsAnyNumber(_)
collectLotDescriptionsAnyNumber(cards) ==
    IF cards = <<>> THEN <<>>
    ELSE LET lotNumber == Trim(Head(cards).number)
             description == Trim(Head(cards).description)
             rest == collectLotDescriptionsAnyNumber(Tail(cards))
         IN IF Truthy(description)
            THEN <<[lot_number |-> lotNumber, description |-> description]>>
                 \o rest
            ELSE rest

\* collectLotDescriptions: the lots pushed, in card order
RECURSIVE collectLotDescriptions(_)
collectLotDescriptions(cards) ==
    IF cards = <<>> THEN <<>>
    ELSE LET lotNumber == Trim(Head(cards).number)
             description == Trim(Head(cards).description)
             rest == collectLotDescriptions(Tail(cards))
         IN IF Truthy(lotNumber) /\ Truthy(description)
            THEN <<[lot_number |-> lotNumber, description |-> description]>>
                 \o rest
            ELSE rest

\* updateLotNumbers: the cards after the renumbering of blank inputs
updateLotNumbers(cards) ==
    [k \in DOMAIN cards |->
        IF ~Truthy(Trim(cards[k].number))
        THEN [cards[k] EXCEPT !.number = Numeral(k)]
        ELSE cards[k]]

\* handleSitePlanUpload / handleLotMapUpload up to
\* `await optimizeImageForUpload(file)`: change event of the slot's file input
handleUpload(slot, f) ==
    /\ page = "planning"
    /\ Cardinality(uploads) < MaxUploads
    /\ uploadInputs' = [uploadInputs EXCEPT ![slot] = f]
    /\ uploads' = uploads \cup {[slot |-> slot, file |-> f, stage |-> "optimize"]}
    /\ step' = NoStep
    /\ UNCHANGED <<page, utilsVars, detailVars, settingsVars, currentSitePlanImage, currentLotMapImage,
                   isPlanningRendering, generatePlanningBtn, addLotBtnDisabled,
                   lotCards, planningError, planningGallery,
                   planningControlsHidden, planningCalls>>

\* img.onload and canvas.toBlob of optimizeImageForUpload: the promise
\* resolves and the handler starts reader.readAsDataURL(optimizedBlob)
OptimizeResolves(u) ==
    /\ page = "planning"
    /\ u \in uploads
    /\ u.stage = "optimize"
    /\ uploads' = (uploads \ {u}) \cup {[u EXCEPT !.stage = "read"]}
    /\ step' = NoStep
    /\ UNCHANGED <<page, utilsVars, detailVars, settingsVars, uploadInputs,
                   currentSitePlanImage, currentLotMapImage,
                   isPlanningRendering, generatePlanningBtn, addLotBtnDisabled,
                   lotCards, planningError, planningGallery,
                   planningControlsHidden, planningCalls>>

\* the file does not decode: the page's optimizeImageForUpload installs no
\* img.onerror, so nothing runs; the promise has no resolver left and the
\* handler awaiting it is never resumed, so it leaves `uploads`, the
\* handlers that can still run
DecodeFails(u) ==
    /\ page = "planning"
    /\ u \in uploads
    /\ u.stage = "optimize"
    /\ uploads' = uploads \ {u}
    /\ step' = NoStep
    /\ UNCHANGED <<page, utilsVars, detailVars, settingsVars, uploadInputs,
                   currentSitePlanImage, currentLotMapImage,
                   isPlanningRendering, generatePlanningBtn, addLotBtnDisabled,
                   lotCards, planningError, planningGallery,
                   planningControlsHidden, planningCalls>>

\* canvas.toBlob hands null to resolve (the canvas cannot be encoded):
\* reader.readAsDataURL(null) throws and the handler's catch block runs
ReadAsDataURLThrows(u) ==
    /\ page = "planning"
    /\ u \in uploads
    /\ u.stage = "optimize"
    /\ uploads' = uploads \ {u}
    /\ planningError' =
         Shown(IF u.slot = "sitePlan"
               THEN <<"Loi tai site plan. Vui long thu lai.">>
               ELSE <<"Loi tai lot map. Vui long thu lai.">>)
    /\ step' = NoStep
    /\ UNCHANGED <<page, utilsVars, detailVars, settingsVars, uploadInputs,
                   currentSitePlanImage,
                   currentLotMapImage, isPlanningRendering, generatePlanningBtn,
                   addLotBtnDisabled, lotCards, planningGallery,
                   planningControlsHidden, planningCalls>>

\* reader.onload of handleSitePlanUpload / handleLotMapUpload
UploadReaderOnload(u) ==
    /\ page = "planning"
    /\ u \in uploads
    /\ u.stage = "read"
    /\ uploads' = uploads \ {u}
    /\ LET result == BlobURL(Optimized(u.file)) IN
         IF u.slot = "sitePlan"
         THEN /\ currentSitePlanImage' = result
              /\ UNCHANGED <<currentLotMapImage, addLotBtnDisabled>>
         ELSE /\ currentLotMapImage' = result
              /\ addLotBtnDisabled' = FALSE
              /\ UNCHANGED currentSitePlanImage
    /\ generatePlanningBtn' =
         [generatePlanningBtn EXCEPT !.disabled =
            updateGenerateButton(currentSitePlanImage', currentLotMapImage',
                                 lotCards)]
    /\ step' = NoStep
    /\ UNCHANGED <<page, utilsVars, detailVars, settingsVars, uploadInputs,
                   isPlanningRendering, lotCards,
                   planningError, planningGallery, planningControlsHidden,
                   planningCalls>>

\* addLotDescription: click on #addLotBtn
addLotDescription ==
    /\ page = "planning"
    /\ ~addLotBtnDisabled
    /\ Len(lotCards) < MaxLots
    /\ LET lotNumber == Len(lotCards) + 1 IN
         lotCards' = Append(lotCards, [number |-> Numeral(lotNumber),
                                       description |-> <<>>])
    /\ generatePlanningBtn' =
         [generatePlanningBtn EXCEPT !.disabled =
            updateGenerateButton(currentSitePlanImage, currentLotMapImage,
                                 lotCards')]
    /\ step' = NoStep
    /\ UNCHANGED <<page, utilsVars, detailVars, settingsVars, uploadInputs,
                   currentSitePlanImage, currentLotMapImage,
                   isPlanningRendering, addLotBtnDisabled, planningError,
                   planningGallery, planningControlsHidden, uploads,
                   planningCalls>>

\* click on the .btn-remove of card k
RemoveLot(k) ==
    /\ page = "planning"
    /\ k \in DOMAIN lotCards
    /\ lotCards' = updateLotNumbers(RemoveAt(lotCards, k))
    /\ generatePlanningBtn' =
         [generatePlanningBtn EXCEPT !.disabled =
            updateGenerateButton(currentSitePlanImage, currentLotMapImage,
                                 lotCards')]
    /\ step' = NoStep
    /\ UNCHANGED <<page, utilsVars, detailVars, settingsVars, uploadInputs,
                   currentSitePlanImage, currentLotMapImage,
                   isPlanningRendering, addLotBtnDisabled, planningError,
                   planningGallery, planningControlsHidden, uploads,
                   planningCalls>>

\* input event of the .lot-description-input of card k
EditLotDescription(k, v) ==
    /\ page = "planning"
    /\ k \in DOMAIN lotCards
    /\ v \in LotTexts
    /\ lotCards[k].description # v
    /\ lotCards' = [lotCards EXCEPT ![k].description = v]
    /\ generatePlanningBtn' =
         [generatePlanningBtn EXCEPT !.disabled =
            updateGenerateButton(currentSitePlanImage, currentLotMapImage,
                                 lotCards')]
    /\ step' = NoStep
    /\ UNCHANGED <<page, utilsVars, detailVars, settingsVars, uploadInputs,
                   currentSitePlanImage, currentLotMapImage,
                   isPlanningRendering, addLotBtnDisabled, planningError,
                   planningGallery, planningControlsHidden, uploads,
                   planningCalls>>

\* the user edits the .lot-number-input of card k (no listener is attached)
EditLotNumber(k, v) ==
    /\ page = "planning"
    /\ k \in DOMAIN lotCards
    /\ v \in NumberEdits
    /\ lotCards[k].number # v
    /\ lotCards' = [lotCards EXCEPT ![k].number = v]
    /\ step' = NoStep
    /\ UNCHANGED <<page, utilsVars, detailVars, settingsVars, uploadInputs,
                   currentSitePlanImage, currentLotMapImage,
                   isPlanningRendering, generatePlanningBtn, addLotBtnDisabled,
                   planningError, planningGallery, planningControlsHidden,
                   uploads, planningCalls>>

\* generatePlanningRender without the isPlanningRendering check
generatePlanningRenderUnguarded ==
    IF ~Truthy(currentSitePlanImage) \/ ~Truthy(currentLotMapImage)
    THEN /\ planningError' = Shown(<<"Vui long upload Site Plan va Lot Map!">>)
         /\ step' = Step("render", <<>>, "none")
         /\ UNCHANGED <<isPlanningRendering, generatePlanningBtn,
                        planningCalls>>
    ELSE IF Len(collectLotDescriptions(lotCards)) = 0
    THEN /\ planningError' = Shown(<<"Vui long them it nhat mot mo ta lo!">>)
         /\ step' = Step("render", <<>>, "none")
         /\ UNCHANGED <<isPlanningRendering, generatePlanningBtn,
                        planningCalls>>
    ELSE /\ isPlanningRendering' = TRUE
         /\ generatePlanningBtn' = [disabled |-> TRUE, label |-> LabelBusy]
         /\ planningError' = Hidden
         /\ planningCalls' = Append(planningCalls, AtFetch)
         /\ step' = Step("render", <<"render">>, "none")

\* generatePlanningRender up to its first await, run for a click
generatePlanningRender ==
    IF ~Truthy(currentSitePlanImage) \/ ~Truthy(currentLotMapImage)
    THEN /\ planningError' = Shown(<<"Vui long upload Site Plan va Lot Map!">>)
         /\ step' = Step("render", <<>>, "none")
         /\ UNCHANGED <<isPlanningRendering, generatePlanningBtn,
                        planningCalls>>
    ELSE IF Len(collectLotDescriptions(lotCards)) = 0
    THEN /\ planningError' = Shown(<<"Vui long them it nhat mot mo ta lo!">>)
         /\ step' = Step("render", <<>>, "none")
         /\ UNCHANGED <<isPlanningRendering, generatePlanningBtn,
                        planningCalls>>
    ELSE IF isPlanningRendering
    THEN /\ step' = Step("render", <<>>,
                         "Planning render already in progress")
         /\ UNCHANGED <<isPlanningRendering, generatePlanningBtn,
                        planningError, planningCalls>>
    ELSE /\ isPlanningRendering' = TRUE
         /\ generatePlanningBtn' = [disabled |-> TRUE, label |-> LabelBusy]
         /\ planningError' = Hidden
         /\ planningCalls' = Append(planningCalls, AtFetch)
         /\ step' = Step("render", <<"render">>, "none")

\* click on #generatePlanningBtn (a disabled button fires no click event)
PlanningGenerateClick ==
    /\ page = "planning"
    /\ ~generatePlanningBtn.disabled
    /\ Len(planningCalls) < MaxCalls
    /\ generatePlanningRender
    /\ UNCHANGED <<page, utilsVars, detailVars, settingsVars, uploadInputs,
                   currentSitePlanImage, currentLotMapImage,
                   addLotBtnDisabled, lotCards, planningGallery,
                   planningControlsHidden, uploads>>

\* click on #regeneratePlanningBtn, which sits in the output controls
PlanningRegenerateClick ==
    /\ page = "planning"
    /\ ~planningControlsHidden
    /\ Len(planningCalls) < MaxCalls
    /\ generatePlanningRender
    /\ UNCHANGED <<page, utilsVars, detailVars, settingsVars, uploadInputs,
                   currentSitePlanImage, currentLotMapImage,
                   addLotBtnDisabled, lotCards, planningGallery,
                   planningControlsHidden, uploads>>

\* the catch block of generatePlanningRender without the finally block
planningCatchNoFinally(i, message, refusal) ==
    /\ planningError' = Shown(<<"Loi render: ">> \o message)
    /\ planningCalls' = RemoveAt(planningCalls, i)
    /\ step' = Refused(refusal)
    /\ UNCHANGED <<page, utilsVars, detailVars, settingsVars, uploadInputs,
                   currentSitePlanImage,
                   currentLotMapImage, isPlanningRendering, generatePlanningBtn,
                   addLotBtnDisabled, lotCards, planningGallery,
                   planningControlsHidden, uploads>>

\* catch and finally of generatePlanningRender, for the call at position i
planningCatch(i, message, refusal) ==
    /\ planningError' = Shown(<<"Loi render: ">> \o message)
    /\ generatePlanningBtn' = [disabled |-> FALSE, label |-> LabelIdle]
    /\ isPlanningRendering' = FALSE
    /\ planningCalls' = RemoveAt(planningCalls, i)
    /\ step' = Refused(refusal)
    /\ UNCHANGED <<page, utilsVars, detailVars, settingsVars, uploadInputs,
                   currentSitePlanImage, currentLotMapImage,
                   addLotBtnDisabled, lotCards, planningGallery,
                   planningControlsHidden, uploads>>

\* displayPlanningRender: the children of #planningGallery after the call;
\* img.src = `data:${mimeType};base64,${base64Data}`
displayPlanningRender(base64Data, mimeType) ==
    << <<"data:">> \o mimeType \o <<";base64,">> \o base64Data >>

\* the rest of the try block after a parsed OK body, then finally
planningDisplay(i, result) ==
    /\ planningGallery' =
         displayPlanningRender(result.generated_image_base64, result.mime_type)
    /\ planningControlsHidden' = FALSE
    /\ generatePlanningBtn' = [disabled |-> FALSE, label |-> LabelIdle]
    /\ isPlanningRendering' = FALSE
    /\ planningCalls' = RemoveAt(planningCalls, i)
    /\ step' = Received(result.generated_image_base64)
    /\ UNCHANGED <<page, utilsVars, detailVars, settingsVars, uploadInputs,
                   currentSitePlanImage, currentLotMapImage,
                   addLotBtnDisabled, lotCards, planningError, uploads>>

\* `await fetch(...)` of generatePlanningRender rejects
PlanningFetchRejects(i) ==
    /\ page = "planning"
    /\ i \in DOMAIN planningCalls
    /\ planningCalls[i].stage = "fetch"
    /\ planningCatch(i, NetworkErrorMessage, NoRefusal)

\* `await fetch(...)` of generatePlanningRender resolves, response.ok = isOk
PlanningFetchResolves(i, isOk) ==
    /\ page = "planning"
    /\ i \in DOMAIN planningCalls
    /\ planningCalls[i].stage = "fetch"
    /\ planningCalls' = [planningCalls EXCEPT ![i] = AtJson(isOk)]
    /\ step' = NoStep
    /\ UNCHANGED <<page, utilsVars, detailVars, settingsVars, uploadInputs,
                   currentSitePlanImage, currentLotMapImage,
                   isPlanningRendering, generatePlanningBtn, addLotBtnDisabled,
                   lotCards, planningError, planningGallery,
                   planningControlsHidden, uploads>>

\* `await response.json()` of generatePlanningRender settles on body
PlanningBodySettles(i, body) ==
    /\ page = "planning"
    /\ i \in DOMAIN planningCalls
    /\ planningCalls[i].stage = "json"
    /\ body \in RenderBodies(planningCalls[i].ok)
    /\ IF ~body.json THEN planningCatch(i, JsonParseMessage,
                 Refusal(planningCalls[i].ok, body))
       ELSE IF ~planningCalls[i].ok
       THEN planningCatch(i, IF Truthy(body.error) THEN body.error
                             ELSE <<"Planning render failed">>,
                          Refusal(FALSE, body))
       ELSE planningDisplay(i, body)

\* uploading, describing lots and rendering
PlanningRenderNext ==
    \/ \E f \in PlanFiles : handleUpload("sitePlan", f)
    \/ \E f \in LotMapFiles : handleUpload("lotMap", f)
    \/ \E u \in uploads : OptimizeResolves(u)
    \/ \E u \in uploads : UploadReaderOnload(u)
    \/ addLotDescription
    \/ \E k \in 1..MaxLots : \E v \in LotTexts : EditLotDescription(k, v)
    \/ PlanningGenerateClick
    \/ PlanningRegenerateClick
    \/ \E i \in 1..MaxCalls : PlanningFetchRejects(i)
    \/ \E i \in 1..MaxCalls : \E isOk \in BOOLEAN :
            PlanningFetchResolves(i, isOk)
    \/ \E i \in 1..MaxCalls :
         \E body \in RenderBodies(TRUE) \cup RenderBodies(FALSE) :
            PlanningBodySettles(i, body)

PlanningNext ==
    \/ PlanningRenderNext
    \/ \E u \in uploads : DecodeFails(u)
    \/ \E u \in uploads : ReadAsDataURLThrows(u)
    \/ \E k \in 1..MaxLots : RemoveLot(k)
    \/ \E k \in 1..MaxLots : \E v \in NumberEdits : EditLotNumber(k, v)

----------------------------------------------------------------------------
(* settings.js (src/unnamed/part_000) *)

SettingsData == {<<"settings-A">>, <<"settings-B">>}
KeyTexts == {<<>>, <<" ">>, <<"k">>}
SettingsButtons == {"settings", "settings/reset", "settings/test-api-key"}

\* bodies of the settings endpoints; json = FALSE is a body response.json()
\* rejects on; data is what GET /settings carries
SettingsBody(isJson, err, data) ==
    [json |-> isJson, error |-> err, data |-> data]
SettingsNotJson == SettingsBody(FALSE, UNDEF, UNDEF)
SettingsErrors ==
    {SettingsBody(TRUE, m, UNDEF) : m \in ServerErrors \cup {UNDEF}}
LoadBodies(isOk) ==
    (IF isOk THEN {SettingsBody(TRUE, UNDEF, d) : d \in SettingsData}
     ELSE SettingsErrors) \cup {SettingsNotJson}
PostBodies(isOk) ==
    (IF isOk THEN {SettingsBody(TRUE, UNDEF, UNDEF)}
     ELSE SettingsErrors) \cup {SettingsNotJson}

\* a suspended click handler of the settings page
PostCall(endpoint, c) == [endpoint |-> endpoint, stage |-> c.stage, ok |-> c.ok]
\* the suspended click handlers with call c added / removed
Suspend(c) == postCalls (+) SetToBag({c})
Resume(c) == postCalls (-) SetToBag({c})

\* the page's markup: the three buttons ship enabled, the inputs empty
SettingsMarkup ==
    /\ settingsForm = NULL
    /\ apiKeyInput = <<>>
    /\ buttonsDisabled = [b \in SettingsButtons |-> FALSE]

\* a loadSettings() call suspended at its fetch; overtaken records that a
\* call issued after it has stored its response already
LoadAtFetch == [stage |-> "fetch", ok |-> FALSE, overtaken |-> FALSE]

\* the suspended loadSettings() calls after call i has stored its response:
\* the calls before it in the order of issue are overtaken
Overtake(calls, i) ==
    [j \in DOMAIN calls |->
        IF j < i THEN [calls[j] EXCEPT !.overtaken = TRUE] ELSE calls[j]]

\* DOMContentLoaded has run: the listeners are attached and loadSettings() is
\* suspended at its fetch
SettingsInit ==
    /\ currentSettings = NULL
    /\ SettingsMarkup
    /\ loadCalls = IF page = "settings" THEN <<LoadAtFetch>> ELSE <<>>
    /\ postCalls = EmptyBag
    /\ reloadTimers = 0

\* the user types into #apiKeyInput
EditApiKey(v) ==
    /\ page = "settings"
    /\ v \in KeyTexts
    /\ apiKeyInput # v
    /\ apiKeyInput' = v
    /\ step' = NoStep
    /\ UNCHANGED <<page, utilsVars, detailVars, planningVars, currentSettings,
                   settingsForm, buttonsDisabled, loadCalls, postCalls,
                   reloadTimers>>

\* loadSettings up to `await fetch(...)`
loadSettings == loadCalls' = Append(loadCalls, LoadAtFetch)

\* the timer set by saveSettings / resetSettings fires
ReloadTimerFires ==
    /\ page = "settings"
    /\ reloadTimers > 0
    /\ Len(loadCalls) < MaxCalls
    /\ reloadTimers' = reloadTimers - 1
    /\ loadSettings
    /\ step' = Step("none", <<GetSettings>>, "none")
    /\ UNCHANGED <<page, utilsVars, detailVars, planningVars, currentSettings,
                   settingsForm, apiKeyInput, buttonsDisabled, postCalls>>

\* `await fetch(...)` of loadSettings rejects: the catch block shows an alert
LoadFetchRejects(i) ==
    /\ page = "settings"
    /\ i \in DOMAIN loadCalls
    /\ loadCalls[i].stage = "fetch"
    /\ loadCalls' = RemoveAt(loadCalls, i)
    /\ step' = NoStep
    /\ UNCHANGED <<page, utilsVars, detailVars, planningVars, currentSettings,
                   settingsForm, apiKeyInput, buttonsDisabled, postCalls,
                   reloadTimers>>

\* `await fetch(...)` of loadSettings resolves, response.ok = isOk
LoadFetchResolves(i, isOk) ==
    /\ page = "settings"
    /\ i \in DOMAIN loadCalls
    /\ loadCalls[i].stage = "fetch"
    /\ loadCalls' = [loadCalls EXCEPT ![i].stage = "json", ![i].ok = isOk]
    /\ step' = NoStep
    /\ UNCHANGED <<page, utilsVars, detailVars, planningVars, currentSettings,
                   settingsForm, apiKeyInput, buttonsDisabled, postCalls,
                   reloadTimers>>

\* `await response.json()` of loadSettings settles on body
LoadBodySettles(i, body) ==
    /\ page = "settings"
    /\ i \in DOMAIN loadCalls
    /\ loadCalls[i].stage = "json"
    /\ body \in LoadBodies(loadCalls[i].ok)
    /\ IF body.json /\ loadCalls[i].ok
       THEN /\ currentSettings' = body.data
            /\ settingsForm' = body.data
            /\ loadCalls' = RemoveAt(Overtake(loadCalls, i), i)
       ELSE /\ loadCalls' = RemoveAt(loadCalls, i)
            /\ UNCHANGED <<currentSettings, settingsForm>>
    /\ step' = NoStep
    /\ UNCHANGED <<page, utilsVars, detailVars, planningVars, apiKeyInput,
                   buttonsDisabled, postCalls, reloadTimers>>

\* testApiKey up to its first await: click on #testApiKeyBtn
TestKeyClick ==
    /\ page = "settings"
    /\ ~buttonsDisabled["settings/test-api-key"]
    /\ BagCardinality(postCalls) < 3 * MaxCalls
    /\ IF ~Truthy(Trim(apiKeyInput))
       THEN /\ step' = Step("settings/test-api-key", <<>>, "none")
            /\ UNCHANGED <<buttonsDisabled, postCalls>>
       ELSE /\ buttonsDisabled' =
                 [buttonsDisabled EXCEPT !["settings/test-api-key"] = TRUE]
            /\ postCalls' = Suspend(PostCall("settings/test-api-key", AtFetch))
            /\ step' = Step("settings/test-api-key",
                            <<"settings/test-api-key">>, "none")
    /\ UNCHANGED <<page, utilsVars, detailVars, planningVars, currentSettings,
                   settingsForm, apiKeyInput, loadCalls, reloadTimers>>

\* the settings object with api_key taken from the input as typed
SavedBodyUntrimmed ==
    [api_key |-> IF Truthy(apiKeyInput) THEN apiKeyInput ELSE UNDEF]

\* saveSettings: `api_key: apiKeyInput.value.trim() || undefined` of the
\* settings object given to JSON.stringify
SavedBody ==
    LET apiKey == Trim(apiKeyInput) IN
    [api_key |-> IF Truthy(apiKey) THEN apiKey ELSE UNDEF]

\* saveSettings without `saveBtn.disabled = true`
SaveClickNoDisable ==
    /\ page = "settings"
    /\ ~buttonsDisabled["settings"]
    /\ BagCardinality(postCalls) < 3 * MaxCalls
    /\ postCalls' = Suspend(PostCall("settings", AtFetch))
    /\ step' = [Step("settings", <<"settings">>, "none")
                    EXCEPT !.saved = SavedBody]
    /\ UNCHANGED <<page, utilsVars, detailVars, planningVars, currentSettings,
                   settingsForm, apiKeyInput, buttonsDisabled, loadCalls,
                   reloadTimers>>

\* saveSettings up to its first await: click on #saveBtn
SaveClick ==
    /\ page = "settings"
    /\ ~buttonsDisabled["settings"]
    /\ BagCardinality(postCalls) < 3 * MaxCalls
    /\ buttonsDisabled' = [buttonsDisabled EXCEPT !["settings"] = TRUE]
    /\ postCalls' = Suspend(PostCall("settings", AtFetch))
    /\ step' = [Step("settings", <<"settings">>, "none")
                    EXCEPT !.saved = SavedBody]
    /\ UNCHANGED <<page, utilsVars, detailVars, planningVars, currentSettings,
                   settingsForm, apiKeyInput, loadCalls, reloadTimers>>

\* resetSettings up to its first await: click on #resetBtn; confirmed is the
\* answer the user gives to confirm()
ResetClick(confirmed) ==
    /\ page = "settings"
    /\ ~buttonsDisabled["settings/reset"]
    /\ BagCardinality(postCalls) < 3 * MaxCalls
    /\ IF ~confirmed
       THEN /\ step' = Step("settings/reset", <<>>, "none")
            /\ UNCHANGED <<buttonsDisabled, postCalls>>
       ELSE /\ buttonsDisabled' =
                 [buttonsDisabled EXCEPT !["settings/reset"] = TRUE]
            /\ postCalls' = Suspend(PostCall("settings/reset", AtFetch))
            /\ step' = Step("settings/reset", <<"settings/reset">>, "none")
    /\ UNCHANGED <<page, utilsVars, detailVars, planningVars, currentSettings,
                   settingsForm, apiKeyInput, loadCalls, reloadTimers>>

\* a catch block that issues the failed request again
PostFetchRejectsRetry(c) ==
    /\ page = "settings"
    /\ BagIn(c, postCalls)
    /\ c.stage = "fetch"
    /\ step' = Step("none", <<c.endpoint>>, "none")
    /\ UNCHANGED <<page, utilsVars, detailVars, planningVars, currentSettings,
                   settingsForm, apiKeyInput, buttonsDisabled, loadCalls,
                   postCalls, reloadTimers>>

\* `await fetch(...)` of the suspended click handler c rejects: catch shows
\* an alert, finally enables the handler's button
PostFetchRejects(c) ==
    /\ page = "settings"
    /\ BagIn(c, postCalls)
    /\ c.stage = "fetch"
    /\ buttonsDisabled' = [buttonsDisabled EXCEPT ![c.endpoint] = FALSE]
    /\ postCalls' = Resume(c)
    /\ step' = Alerted(IF c.endpoint = "settings" THEN "error" ELSE "none")
    /\ UNCHANGED <<page, utilsVars, detailVars, planningVars, currentSettings,
                   settingsForm, apiKeyInput, loadCalls, reloadTimers>>

\* `await fetch(...)` of the suspended click handler c resolves
PostFetchResolves(c, isOk) ==
    /\ page = "settings"
    /\ BagIn(c, postCalls)
    /\ c.stage = "fetch"
    /\ postCalls' =
         Resume(c) (+) SetToBag({PostCall(c.endpoint, AtJson(isOk))})
    /\ step' = NoStep
    /\ UNCHANGED <<page, utilsVars, detailVars, planningVars, currentSettings,
                   settingsForm, apiKeyInput, buttonsDisabled, loadCalls,
                   reloadTimers>>

\* the alert saveSettings shows for a body: success for every OK body that
\* parses, an error otherwise
AlertType(c, body) ==
    IF c.endpoint # "settings" THEN "none"
    ELSE IF body.json /\ c.ok THEN "success"
    ELSE "error"

\* the body settles in a handler that enables its button at the end of the
\* try block instead of in finally
PostBodySettlesNoFinally(c, body) ==
    /\ page = "settings"
    /\ BagIn(c, postCalls)
    /\ c.stage = "json"
    /\ body \in PostBodies(c.ok)
    /\ LET succeeded == body.json /\ c.ok
           reloads == succeeded /\ c.endpoint # "settings/test-api-key"
       IN /\ reloads => reloadTimers < MaxTimers
          /\ reloadTimers' = IF reloads THEN reloadTimers + 1 ELSE reloadTimers
          /\ apiKeyInput' = IF succeeded /\ c.endpoint = "settings"
                            THEN <<>> ELSE apiKeyInput
          /\ buttonsDisabled' =
               [buttonsDisabled EXCEPT ![c.endpoint] = ~succeeded]
    /\ postCalls' = Resume(c)
    /\ step' = Alerted(AlertType(c, body))
    /\ UNCHANGED <<page, utilsVars, detailVars, planningVars, currentSettings,
                   settingsForm, loadCalls>>

\* `await response.json()` of the suspended click handler c settles on body;
\* saveSettings and resetSettings schedule the reload after an OK body
PostBodySettles(c, body) ==
    /\ page = "settings"
    /\ BagIn(c, postCalls)
    /\ c.stage = "json"
    /\ body \in PostBodies(c.ok)
    /\ LET succeeded == body.json /\ c.ok
           reloads == succeeded /\ c.endpoint # "settings/test-api-key"
       IN /\ reloads => reloadTimers < MaxTimers
          /\ reloadTimers' = IF reloads THEN reloadTimers + 1 ELSE reloadTimers
          /\ apiKeyInput' = IF succeeded /\ c.endpoint = "settings"
                            THEN <<>> ELSE apiKeyInput
          /\ buttonsDisabled' = [buttonsDisabled EXCEPT ![c.endpoint] = FALSE]
    /\ postCalls' = Resume(c)
    /\ step' = Alerted(AlertType(c, body))
    /\ UNCHANGED <<page, utilsVars, detailVars, planningVars, currentSettings,
                   settingsForm, loadCalls>>

\* the steps of the settings page other than a click on #testApiKeyBtn
SaveAndLoadNext ==
    \/ \E v \in KeyTexts : EditApiKey(v)
    \/ ReloadTimerFires
    \/ \E i \in 1..MaxCalls : LoadFetchRejects(i)
    \/ \E i \in 1..MaxCalls : \E isOk \in BOOLEAN : LoadFetchResolves(i, isOk)
    \/ \E i \in 1..MaxCalls :
         \E body \in LoadBodies(TRUE) \cup LoadBodies(FALSE) :
            LoadBodySettles(i, body)
    \/ SaveClick
    \/ \E confirmed \in BOOLEAN : ResetClick(confirmed)
    \/ \E c \in BagToSet(postCalls) : PostFetchRejects(c)
    \/ \E c \in BagToSet(postCalls) : \E isOk \in BOOLEAN :
            PostFetchResolves(c, isOk)
    \/ \E c \in BagToSet(postCalls) :
         \E body \in PostBodies(TRUE) \cup PostBodies(FALSE) :
            PostBodySettles(c, body)

SettingsNext == SaveAndLoadNext \/ TestKeyClick

----------------------------------------------------------------------------
(* utils.js *)

\* CONFIG.MAX_IMAGE_DIMENSION, and MAX_DIMENSION of the planning page's copy
MAX_DIMENSION == 1024
\* CONFIG.AUTO_HIDE_SUCCESS_MS, and the fixed delay of the page-local copies
AUTO_HIDE_SUCCESS_MS == 4000

\* widths and heights of the images given to optimizeImageForUpload
Dimensions == {1, 3, 512, 1000, 1023, 1024, 1025, 2000, 2048, 4096}
NoImage == [width |-> 0, height |-> 0]

\* Math.round(n / d) for n >= 0 and d > 0: the nearest integer, a half
\* rounding up
Round(n, d) == (2 * n + d) \div (2 * d)

\* img.onload of optimizeImageForUpload taking the larger of the two ratios
OptimizedSizeCover(w, h) ==
    IF w > MAX_DIMENSION \/ h > MAX_DIMENSION
    THEN LET short == IF w > h THEN h ELSE w IN
           [width |-> Round(w * MAX_DIMENSION, short),
            height |-> Round(h * MAX_DIMENSION, short)]
    ELSE [width |-> w, height |-> h]

\* img.onload of optimizeImageForUpload: canvas.width and canvas.height.
\* ratio = Math.min(MAX_DIMENSION / width, MAX_DIMENSION / height) is
\* MAX_DIMENSION over the longer side
OptimizedSize(w, h) ==
    IF w > MAX_DIMENSION \/ h > MAX_DIMENSION
    THEN LET long == IF w > h THEN w ELSE h IN
           [width |-> Round(w * MAX_DIMENSION, long),
            height |-> Round(h * MAX_DIMENSION, long)]
    ELSE [width |-> w, height |-> h]

\* states of the promise optimizeImageForUpload returns
NotCalled == [state |-> "none", type |-> "none", size |-> NoImage]
Pending == [state |-> "pending", type |-> "none", size |-> NoImage]
Resolved(type, size) == [state |-> "resolved", type |-> type, size |-> size]

\* texts and delays passed to showSuccess, element ids it is called with
SuccessMessages == {<<"s1">>, <<"s2">>}
Delays == {-1, 0, AUTO_HIDE_SUCCESS_MS}
ElementIds == {"success", "missing"}
NoShow == [message |-> NoText, autoHideMs |-> AUTO_HIDE_SUCCESS_MS,
           is |-> FALSE]

\* a document that has loaded utils.js only: nothing is called yet
UtilsInit ==
    /\ image \in (IF page = "utils"
                  THEN [width : Dimensions, height : Dimensions]
                  ELSE {NoImage})
    /\ optimized = NotCalled
    /\ successEl = Hidden
    /\ hideTimers = 0
    /\ lastShow = NoShow

\* optimizeImageForUpload(file) up to `img.src = URL.createObjectURL(file)`
optimizeImageForUpload ==
    /\ page = "utils"
    /\ optimized = NotCalled
    /\ optimized' = Pending
    /\ step' = NoStep
    /\ UNCHANGED <<page, detailVars, planningVars, settingsVars, image,
                   successEl, hideTimers, lastShow>>

\* img.onload of optimizeImageForUpload, then the canvas.toBlob callback
ImageOnload ==
    /\ page = "utils"
    /\ optimized = Pending
    /\ optimized' = Resolved("image/png",
                             OptimizedSize(image.width, image.height))
    /\ step' = NoStep
    /\ UNCHANGED <<page, detailVars, planningVars, settingsVars, image,
                   successEl, hideTimers, lastShow>>

\* img.onerror of optimizeImageForUpload: resolve(file)
ImageOnerror ==
    /\ page = "utils"
    /\ optimized = Pending
    /\ optimized' = Resolved("file", image)
    /\ step' = NoStep
    /\ UNCHANGED <<page, detailVars, planningVars, settingsVars, image,
                   successEl, hideTimers, lastShow>>

\* showSuccess(id, message, autoHideMs)
showSuccess(id, message, autoHideMs) ==
    /\ page = "utils"
    /\ autoHideMs > 0 => hideTimers < MaxHideTimers
    /\ IF id = "success"
       THEN /\ successEl' = Shown(message)
            /\ hideTimers' = IF autoHideMs > 0 THEN hideTimers + 1
                             ELSE hideTimers
            /\ lastShow' = [message |-> message, autoHideMs |-> autoHideMs,
                            is |-> TRUE]
       ELSE UNCHANGED <<successEl, hideTimers, lastShow>>
    /\ step' = NoStep
    /\ UNCHANGED <<page, detailVars, planningVars, settingsVars, image,
                   optimized>>

\* the callback of a timer showSuccess set
HideTimerFires ==
    /\ page = "utils"
    /\ hideTimers > 0
    /\ hideTimers' = hideTimers - 1
    /\ successEl' = Hidden
    /\ step' = NoStep
    /\ UNCHANGED <<page, detailVars, planningVars, settingsVars, image,
                   optimized, lastShow>>

\* hideSuccess(id)
hideSuccess(id) ==
    /\ page = "utils"
    /\ IF id = "success"
       THEN /\ successEl' = Hidden
            /\ lastShow' = NoShow
       ELSE UNCHANGED <<successEl, lastShow>>
    /\ step' = NoStep
    /\ UNCHANGED <<page, detailVars, planningVars, settingsVars, image,
                   optimized, hideTimers>>

UtilsNext ==
    \/ optimizeImageForUpload
    \/ ImageOnload
    \/ ImageOnerror
    \/ \E id \in ElementIds : \E m \in SuccessMessages : \E d \in Delays :
            showSuccess(id, m, d)
    \/ HideTimerFires
    \/ \E id \in ElementIds : hideSuccess(id)

----------------------------------------------------------------------------
(* The document *)

Init ==
    /\ page \in Pages
    /\ DetailInit
    /\ PlanningInit
    /\ SettingsInit
    /\ UtilsInit
    /\ step = NoStep

Next == DetailNext \/ PlanningNext \/ SettingsNext \/ UtilsNext

Spec == Init /\ [][Next]_vars

\* One page at a time: the document never changes its page, so the runs of
\* Spec that start on a page are the runs of that page's specification.
DetailInitial == Init /\ page = "detail"
DetailSpec == DetailInitial /\ [][DetailNext]_vars
PlanningInitial == Init /\ page = "planning"
PlanningSpec == PlanningInitial /\ [][PlanningNext]_vars
UtilsInitial == Init /\ page = "utils"
UtilsSpec == UtilsInitial /\ [][UtilsNext]_vars

\* Saving and reloading on the settings page under the scheduling of the
\* browser's event loop: a timer that is due fires, and a request that was
\* issued settles (fetch and response.json() resolve or reject).  testApiKey
\* is left out: it reads #apiKeyInput and writes only its own button and the
\* status badge, so it shares nothing with saving, resetting and reloading.
SettingsInitial == Init /\ page = "settings"
LoadSettles ==
    \E i \in 1..MaxCalls :
        \/ LoadFetchRejects(i)
        \/ \E isOk \in BOOLEAN : LoadFetchResolves(i, isOk)
        \/ \E body \in LoadBodies(TRUE) \cup LoadBodies(FALSE) :
                LoadBodySettles(i, body)
SettingsSpec == SettingsInitial /\ [][SettingsNext]_vars
SettingsFairSpec ==
    /\ SettingsInitial
    /\ [][SaveAndLoadNext]_vars
    /\ WF_vars(ReloadTimerFires)
    /\ WF_vars(LoadSettles)

\* Rendering on the two render pages under fair response delivery: a request
\* that was issued settles (fetch and response.json() resolve or reject).
\* Analysing the sketch and the quality presets are left out: they share
\* neither isRendering nor the generate button with rendering.  So are
\* failing uploads, removing lot cards and clearing lot numbers: they touch
\* neither isPlanningRendering nor the suspended calls.
RenderInitial == Init /\ page \in {"detail", "planning"}
RenderSettles ==
    \E i \in 1..MaxCalls :
        \/ RenderFetchRejects(i)
        \/ \E isOk \in BOOLEAN : RenderFetchResolves(i, isOk)
        \/ \E body \in RenderBodies(TRUE) \cup RenderBodies(FALSE) :
                RenderBodySettles(i, body)
PlanningSettles ==
    \E i \in 1..MaxCalls :
        \/ PlanningFetchRejects(i)
        \/ \E isOk \in BOOLEAN : PlanningFetchResolves(i, isOk)
        \/ \E body \in RenderBodies(TRUE) \cup RenderBodies(FALSE) :
                PlanningBodySettles(i, body)
RenderFairSpec ==
    /\ RenderInitial
    /\ [][DetailRenderNext \/ PlanningRenderNext]_vars
    /\ WF_vars(RenderSettles)
    /\ WF_vars(PlanningSettles)

----------------------------------------------------------------------------
(* Properties of the planning-detail and planning render handlers *)

\* C1: on the planning-detail page at most one POST /planning/detail-render
\* is outstanding in every reachable state, under every interleaving of
\* generate clicks, regenerate clicks and response arrivals; a call of
\* generateRender made while isRendering is true issues no request.
C1_OneDetailRenderOutstanding ==
    /\ [](Len(renderCalls) <= 1)
    /\ [][(isRendering /\ step'.click = "detail-render")
            => (step'.sent = <<>> /\ renderCalls' = renderCalls)]_vars

\* a regenerate click arrived while the render request was outstanding and
\* was turned away by the flag
C1_Witness ==
    /\ page = "detail"
    /\ step.click = "detail-render"
    /\ step.warn = "Rendering already in progress"
    /\ isRendering
    /\ Len(renderCalls) = 1

\* C2: on the planning page at most one POST /planning/render is outstanding
\* in every reachable state, under every interleaving of generate and
\* regenerate clicks, lot-card edits, uploads and response arrivals; a call of
\* generatePlanningRender made while isPlanningRendering is true issues no
\* request.
C2_OnePlanningRenderOutstanding ==
    /\ [](Len(planningCalls) <= 1)
    /\ [][(isPlanningRendering /\ step'.click = "render")
            => (step'.sent = <<>> /\ planningCalls' = planningCalls)]_vars

\* a click arrived while the planning request was outstanding, passed the
\* validation and was turned away by the flag
C2_Witness ==
    /\ page = "planning"
    /\ step.click = "render"
    /\ step.warn = "Planning render already in progress"
    /\ isPlanningRendering
    /\ Len(planningCalls) = 1

\* C3: a step issues POST /planning/render only from a state in which both
\* currentSitePlanImage and currentLotMapImage are set and some lot card has a
\* non-empty trimmed lot number and a non-empty trimmed description; a call
\* of generatePlanningRender from any other state leaves a message displayed
\* in planningError and issues no request.
C3_PlanningSubmitValidated ==
    [][LET ready ==
              /\ currentSitePlanImage # NULL
              /\ currentLotMapImage # NULL
              /\ \E k \in DOMAIN lotCards :
                    /\ Trim(lotCards[k].number) # <<>>
                    /\ Trim(lotCards[k].description) # <<>>
           issues ==
              \/ Len(planningCalls') > Len(planningCalls)
              \/ \E k \in DOMAIN step'.sent : step'.sent[k] = "render"
       IN /\ issues => ready
          /\ (step'.click = "render" /\ ~ready)
                => /\ ~issues
                   /\ ~planningError'.hidden
                   /\ planningError'.text # NoText]_vars

\* a click on the planning page was rejected by the validation although both
\* images were loaded and a card with a description existed: its lot number
\* was blank
C3_Witness ==
    /\ page = "planning"
    /\ step.click = "render"
    /\ step.sent = <<>>
    /\ currentSitePlanImage # NULL
    /\ currentLotMapImage # NULL
    /\ \E k \in DOMAIN lotCards : Trim(lotCards[k].description) # <<>>
    /\ planningError = Shown(<<"Vui long them it nhat mot mo ta lo!">>)

\* C4 as claimed: a step issues POST /planning/detail-render only from a
\* state in which a sketch is loaded and one of the four description inputs
\* is non-empty after trimming; a call of generateRender from any other state
\* leaves a message displayed in renderError and issues no request.
C4_DetailSubmitValidatedOrMessage ==
    [][LET ready == currentSketchImage # NULL /\ HasDescription
           issues ==
              \/ Len(renderCalls') > Len(renderCalls)
              \/ \E k \in DOMAIN step'.sent : step'.sent[k] = "detail-render"
       IN /\ issues => ready
          /\ (step'.click = "detail-render" /\ ~ready)
                => /\ ~issues
                   /\ ~renderError'.hidden
                   /\ renderError'.text # NoText]_vars

\* C4 as amended: a step issues POST /planning/detail-render only from a
\* state in which a sketch is loaded and one of the four description inputs
\* is non-empty after trimming; a call of generateRender from any other state
\* issues no request and, unless a render is already in progress, leaves a
\* message displayed in renderError.
C4_DetailSubmitValidated ==
    [][LET ready == currentSketchImage # NULL /\ HasDescription
           issues ==
              \/ Len(renderCalls') > Len(renderCalls)
              \/ \E k \in DOMAIN step'.sent : step'.sent[k] = "detail-render"
       IN /\ issues => ready
          /\ (step'.click = "detail-render" /\ ~ready)
                => /\ ~issues
                   /\ ~isRendering
                        => /\ ~renderError'.hidden
                           /\ renderError'.text # NoText]_vars

\* a click on the detail page was rejected by the validation of the
\* description inputs while no render was in progress
C4_Witness ==
    /\ page = "detail"
    /\ step.click = "detail-render"
    /\ step.sent = <<>>
    /\ step.warn = "none"
    /\ currentSketchImage # NULL
    /\ ~HasDescription
    /\ ~isRendering
    /\ ~renderError.hidden

\* C5: on both render pages, the step in which an accepted render request
\* ends with a rejected fetch or with a non-OK response leaves the page's
\* error element displayed with a message, the generate button enabled and
\* the page's in-flight flag false.
C5_FailedRenderRestoresPage ==
    [][/\ (/\ page = "detail"
           /\ \E i \in DOMAIN renderCalls :
                /\ renderCalls' = RemoveAt(renderCalls, i)
                /\ renderCalls[i].stage = "fetch" \/ ~renderCalls[i].ok)
          => /\ ~renderError'.hidden
             /\ renderError'.text # NoText
             /\ ~generateButtonDisabled'
             /\ ~isRendering'
       /\ (/\ page = "planning"
           /\ \E i \in DOMAIN planningCalls :
                /\ planningCalls' = RemoveAt(planningCalls, i)
                /\ planningCalls[i].stage = "fetch" \/ ~planningCalls[i].ok)
          => /\ ~planningError'.hidden
             /\ planningError'.text # NoText
             /\ ~generatePlanningBtn'.disabled
             /\ ~isPlanningRendering']_vars

\* a planning render request has just ended with a non-OK response whose
\* body named no error
C5_Witness ==
    /\ page = "planning"
    /\ planningCalls = <<>>
    /\ step = Refused([is |-> TRUE, json |-> TRUE, error |-> UNDEF])
    /\ planningError = Shown(<<"Loi render: ", "Planning render failed">>)
    /\ ~isPlanningRendering

\* C6: nothing is retried: every step sends at most one POST, and only to the
\* endpoint of the button whose click the step handles, so a step that handles
\* the failure of a request sends none, and on every page the POSTs sent to an
\* endpoint never outnumber the clicks that triggered it.
C6_NoRetry ==
    LET posts == {k \in DOMAIN step.sent : step.sent[k] \in PostEndpoints}
    IN /\ Cardinality(posts) <= 1
       /\ \A k \in posts : step.sent[k] = step.click

\* a detail render request has just failed with a rejected fetch and no
\* request is outstanding
C6_Witness ==
    /\ page = "detail"
    /\ step.sent = <<>>
    /\ renderCalls = <<>>
    /\ renderError = Shown(<<"Loi khi render: ">> \o NetworkErrorMessage)

\* C7 as claimed: in every reachable state of the planning page in which the
\* generate button is enabled, a site plan and a lot map are loaded and some
\* lot card has a non-empty description.
C7_PlanningButtonNeedsInputs ==
    (page = "planning" /\ ~generatePlanningBtn.disabled)
        => /\ currentSitePlanImage # NULL
           /\ currentLotMapImage # NULL
           /\ \E k \in DOMAIN lotCards : Trim(lotCards[k].description) # <<>>

\* C8 as claimed: in every reachable state of the planning-detail page in
\* which the generate button is enabled, a sketch is loaded and a description
\* (custom, overall or high-rise count/floors) is present.
C8_DetailButtonNeedsInputs ==
    (page = "detail" /\ ~generateButtonDisabled)
        => (currentSketchImage # NULL /\ HasDescription)

\* C8 as amended: in every reachable state of the planning-detail page in
\* which the generate button is enabled, a sketch is loaded.
C8_DetailButtonNeedsSketch ==
    (page = "detail" /\ ~generateButtonDisabled) => currentSketchImage # NULL

\* the generate button is enabled after a render that has completed, with a
\* sketch loaded and the description inputs emptied since
C8_Witness ==
    /\ page = "detail"
    /\ ~generateButtonDisabled
    /\ currentSketchImage # NULL
    /\ ~HasDescription
    /\ gallery # <<>>

\* C9 as claimed: on the settings page at most one GET /settings issued by
\* loadSettings is outstanding in every reachable state.
C9_OneLoadOutstanding == Len(loadCalls) <= 1

\* C9 as amended: on the settings page at most one POST /settings, at most
\* one POST /settings/reset and at most one POST /settings/test-api-key is
\* outstanding in every reachable state, and the button of an outstanding
\* POST is disabled.
C9_OnePostPerButtonOutstanding ==
    \A b \in SettingsButtons :
        LET outstanding ==
               CopiesIn(PostCall(b, AtFetch), postCalls)
               + CopiesIn(PostCall(b, AtJson(TRUE)), postCalls)
               + CopiesIn(PostCall(b, AtJson(FALSE)), postCalls)
        IN /\ outstanding <= 1
           /\ outstanding > 0 => buttonsDisabled[b]

\* a save request is outstanding while two loadSettings calls overlap
C9_Witness ==
    /\ page = "settings"
    /\ Len(loadCalls) = 2
    /\ \E c \in BagToSet(postCalls) : c.endpoint = "settings"

\* C10: in the state a successful render response carrying
\* generated_image_base64 leaves behind, the page's gallery holds exactly one
\* image, whose src is built from that response's data, and the output
\* controls are visible; on the detail page currentRenderedImage is that data.
C10_SuccessfulRenderDisplayed ==
    step.received # UNDEF =>
        /\ page = "detail" =>
              /\ gallery = <<step.received>>
              /\ currentRenderedImage = step.received
              /\ ~outputControlsHidden
        /\ page = "planning" =>
              /\ Len(planningGallery) = 1
              /\ LET src == planningGallery[1]
                     n == Len(step.received)
                 IN /\ Len(src) > n
                    /\ Head(src) = "data:"
                    /\ SubSeq(src, Len(src) - n + 1, Len(src)) = step.received
              /\ ~planningControlsHidden

\* a successful render response carrying "r2" has just been displayed on the
\* detail page
C10_Witness ==
    /\ page = "detail"
    /\ step.received = <<"r2">>
    /\ gallery = <<step.received>>

----------------------------------------------------------------------------
(* Properties of the error handling *)

\* C11: when a render or analyze request receives a non-OK response whose
\* JSON body has an error field m, the step that handles the body leaves the
\* page's error element visible and its text ends with m, unaltered (after
\* the handler's fixed prefix).
C11_ServerMessageSurfaced ==
    [][LET r == step'.refused
           EndsWith(text, m) ==
               /\ Len(text) >= Len(m)
               /\ SubSeq(text, Len(text) - Len(m) + 1, Len(text)) = m
       IN (r.is /\ r.json /\ Truthy(r.error)) =>
            /\ page = "detail" =>
                 ~renderError'.hidden /\ EndsWith(renderError'.text, r.error)
            /\ page = "planning" =>
                 /\ ~planningError'.hidden
                 /\ EndsWith(planningError'.text, r.error)]_vars

\* a refused detail render whose body carried the message m1 has been handled
C11_Witness ==
    /\ page = "detail"
    /\ step.refused = [is |-> TRUE, json |-> TRUE, error |-> <<"m1">>]
    /\ renderError = Shown(<<"Loi khi render: ", "m1">>)

\* C12: when a render request receives a non-OK response whose body carries
\* no error message (a JSON body without an error field, or a body that is
\* not JSON), the step that handles it leaves the page's error element
\* visible and the message it shows is the HTTP status text of the response.
C12_StatusTextSurfaced ==
    [][LET r == step'.refused
           statusText == Response(FALSE).statusText
           ShowsStatusText(el) ==
               ~el.hidden /\ el.text # <<>> /\ el.text[Len(el.text)] = statusText
       IN (r.is /\ ~(r.json /\ Truthy(r.error))) =>
            /\ (page = "detail" /\ Len(renderCalls') < Len(renderCalls)) =>
                 ShowsStatusText(renderError')
            /\ page = "planning" => ShowsStatusText(planningError')]_vars

\* C13: when an uploaded file cannot be decoded or read as an image, the step
\* in which the failure occurs shows the upload-failure message in the
\* page's error element and leaves the stored image (currentSitePlanImage,
\* currentLotMapImage or currentSketchImage) as it was.
C13_UploadFailureShown ==
    [][/\ \A u \in uploads :
            (/\ u.stage = "optimize"
             /\ u \notin uploads'
             /\ [u EXCEPT !.stage = "read"] \notin uploads') =>
                 /\ ~planningError'.hidden
                 /\ planningError'.text \in
                        {<<"Loi tai site plan. Vui long thu lai.">>,
                         <<"Loi tai lot map. Vui long thu lai.">>}
                 /\ currentSitePlanImage' = currentSitePlanImage
                 /\ currentLotMapImage' = currentLotMapImage
       /\ \A f \in Files :
            (/\ f \in sketchReads
             /\ f \notin sketchReads'
             /\ currentSketchImage' # DataURL(f)) =>
                 /\ ~renderError'.hidden
                 /\ renderError'.text # <<>>
                 /\ Head(renderError'.text) = "Loi khi tai anh: "
                 /\ currentSketchImage' = currentSketchImage]_vars

----------------------------------------------------------------------------
(* Properties of utils.js *)

\* C14: for every input image of positive size w x h the canvas that
\* optimizeImageForUpload produces has a longer side of at most 1024; when w
\* and h are both at most 1024 the size is unchanged; when either exceeds
\* 1024 the longer side becomes exactly 1024 and the shorter side is
\* short * 1024 / long rounded to the nearest integer (2000 x 1000 gives
\* 1024 x 512).
C14_OptimizedSizeBounded ==
    (optimized.state = "resolved" /\ optimized.type = "image/png") =>
        LET w == image.width
            h == image.height
            out == optimized.size
            long == IF w > h THEN w ELSE h
            short == IF w > h THEN h ELSE w
            outLong == IF w > h THEN out.width ELSE out.height
            outShort == IF w > h THEN out.height ELSE out.width
            \* 2 * |outShort - short * 1024 / long| <= 1, in integers
            Nearest ==
                /\ 2 * (outShort * long - short * MAX_DIMENSION) <= long
                /\ 2 * (short * MAX_DIMENSION - outShort * long) <= long
        IN /\ out.width <= MAX_DIMENSION /\ out.height <= MAX_DIMENSION
           /\ (w <= MAX_DIMENSION /\ h <= MAX_DIMENSION) =>
                 out = [width |-> w, height |-> h]
           /\ (w > MAX_DIMENSION \/ h > MAX_DIMENSION) =>
                 outLong = MAX_DIMENSION /\ Nearest
           /\ (w = 2000 /\ h = 1000) => out = [width |-> 1024, height |-> 512]

\* the 2000 x 1000 image has been resized
C14_Witness ==
    /\ image = [width |-> 2000, height |-> 1000]
    /\ optimized = Resolved("image/png", [width |-> 1024, height |-> 512])

----------------------------------------------------------------------------
(* Properties of the detail-render payload *)

\* C15: in the payload of every detail-render request, planning_description
\* is the trimmed custom description whenever that is non-empty, and is the
\* string buildDescriptionFromFields builds exactly when the custom
\* description is empty or whitespace; structured_data, holding the raw
\* values of the structured inputs, is part of the payload in both cases.
C15_PlanningDescriptionChosen ==
    [][step'.sent = <<"detail-render">> =>
         LET custom == Trim(fields.custom_description)
             sent == step'.payload
         IN /\ custom # <<>> => sent.planning_description = custom
            /\ sent.planning_description = buildDescriptionFromFields
                 <=> custom = <<>>
            /\ sent.structured_data =
                 [overall_description |-> fields.overall_description,
                  highrise_zone |-> [count |-> fields.highrise_count,
                                     floors |-> fields.highrise_floors]]]_vars

\* a request was sent with a custom description of one blank and a high-rise
\* count: the description was built from the structured inputs
C15_Witness ==
    /\ step.sent = <<"detail-render">>
    /\ fields.custom_description = <<" ">>
    /\ fields.highrise_count = <<"3">>
    /\ step.payload.planning_description = buildDescriptionFromFields
    /\ "Phan khu cao tang:" \in
         {step.payload.planning_description[k] :
            k \in DOMAIN step.payload.planning_description}

----------------------------------------------------------------------------
(* Properties of the settings page *)

\* C16: on the settings page, for each of test-key, save and reset, the
\* button is disabled in every state in which the request of its handler is
\* outstanding (from the step that issues it on), and the step in which the
\* handler finishes, whatever the outcome (OK body, HTTP error body, network
\* failure, malformed body), leaves the button enabled.
C16_ButtonDisabledWhileOutstanding ==
    /\ [](\A c \in BagToSet(postCalls) : buttonsDisabled[c.endpoint])
    /\ [][\A b \in SettingsButtons :
            /\ b \in {step'.sent[k] : k \in DOMAIN step'.sent} =>
                 buttonsDisabled'[b]
            /\ (\E c \in BagToSet(postCalls) :
                   c.endpoint = b /\ postCalls' = Resume(c)) =>
                 ~buttonsDisabled'[b]]_vars

\* a save or a reset succeeded and its handler has finished: the reload is
\* scheduled, no request is outstanding and the three buttons are enabled
C16_Witness ==
    /\ page = "settings"
    /\ reloadTimers = 1
    /\ postCalls = EmptyBag
    /\ \A b \in SettingsButtons : ~buttonsDisabled[b]

\* C17: the step that finishes a successful save (success alert) clears the
\* API key input and schedules a reload, and every scheduled reload
\* eventually runs loadSettings; the step that finishes a failed save (error
\* alert) leaves the API key input as typed and schedules nothing.  The body
\* of a save request has an api_key member exactly when the trimmed input is
\* non-empty, and then it is the trimmed input.
C17_SaveClearsKeyAndReloads ==
    /\ [][\A c \in BagToSet(postCalls) :
            (c.endpoint = "settings" /\ postCalls' = Resume(c)) =>
               /\ step'.alert \in {"success", "error"}
               /\ step'.alert = "success" =>
                    /\ c.stage = "json" /\ c.ok
                    /\ apiKeyInput' = <<>>
                    /\ reloadTimers' = reloadTimers + 1
               /\ step'.alert = "error" =>
                    /\ apiKeyInput' = apiKeyInput
                    /\ reloadTimers' = reloadTimers]_vars
    /\ [][step'.sent = <<"settings">> =>
            /\ step'.saved.api_key # UNDEF <=> Trim(apiKeyInput) # <<>>
            /\ step'.saved.api_key # UNDEF =>
                 step'.saved.api_key = Trim(apiKeyInput)]_vars
    /\ (reloadTimers > 0) ~> (step.sent = <<GetSettings>>)

\* a save has succeeded: the input is empty, the reload is pending and the
\* save button is enabled again
C17_Witness ==
    /\ page = "settings"
    /\ step.alert = "success"
    /\ reloadTimers = 1
    /\ apiKeyInput = <<>>
    /\ ~buttonsDisabled["settings"]
    /\ buttonsDisabled["settings/reset"]

----------------------------------------------------------------------------
(* Frame of a failed render *)

----------------------------------------------------------------------------
(* Properties of showSuccess and optimizeImageForUpload *)

\* C19: every call showSuccess(id, message, d) on an existing element leaves
\* the element visible with that message; with d > 0 it sets one hide timer,
\* and the step in which a hide timer fires leaves the element hidden; with
\* d <= 0 it sets no timer and the message stays visible until hideSuccess
\* is called.
C19_SuccessAutoHides ==
    /\ [][(lastShow'.is /\ lastShow' # lastShow) =>
            /\ successEl' = Shown(lastShow'.message)
            /\ hideTimers' = IF lastShow'.autoHideMs > 0 THEN hideTimers + 1
                             ELSE hideTimers]_vars
    /\ [][hideTimers' < hideTimers => successEl'.hidden]_vars
    /\ []((lastShow.is /\ lastShow.autoHideMs <= 0) =>
            successEl = Shown(lastShow.message))

\* C20: the promise optimizeImageForUpload returns always settles, so the
\* upload handler awaiting it always resumes: when the optimizing of an
\* upload ends, the handler either goes on to read the blob it got or runs
\* its catch block; the promise of utils.js resolves with the resized PNG
\* when the image decodes and with the original file when it does not.
C20_OptimizePromiseSettles ==
    /\ [][\A u \in uploads :
            (u.stage = "optimize" /\ u \notin uploads') =>
               \/ [u EXCEPT !.stage = "read"] \in uploads'
               \/ /\ ~planningError'.hidden
                  /\ planningError'.text \in
                        {<<"Loi tai site plan. Vui long thu lai.">>,
                         <<"Loi tai lot map. Vui long thu lai.">>}]_vars
    /\ [][(optimized = Pending /\ optimized' # Pending) =>
            \/ optimized' = Resolved("image/png",
                                     OptimizedSize(image.width, image.height))
            \/ optimized' = Resolved("file", image)]_vars

----------------------------------------------------------------------------
(* Properties of the quality presets *)

\* C21: immediately after applyQualityPreset(level) the eight quality
\* checkboxes equal the table entry for level when level is standard,
\* high_fidelity or ultra_realism, and the high_fidelity entry for any other
\* level; global_illumination, soft_shadows, reflections and
\* color_correction are checked whatever the level.
C21_PresetApplied ==
    [][qualityLevel' # qualityLevel =>
         LET level == qualityLevel'
             checked == qualityPresets'
             T == TRUE
             F == FALSE
             entry ==
                 IF level = "standard"
                 THEN <<T, T, F, T, F, F, T, F>>
                 ELSE <<T, T, T, T, T, T, T, T>>
         IN /\ <<checked.global_illumination, checked.soft_shadows,
                 checked.hdri_sky, checked.reflections,
                 checked.depth_of_field, checked.bloom,
                 checked.color_correction, checked.desaturate>> = entry
            /\ checked.global_illumination /\ checked.soft_shadows
            /\ checked.reflections /\ checked.color_correction]_vars

\* a level the table does not have was chosen: the
\* checkboxes show the high_fidelity bundle
C21_Witness ==
    /\ page = "detail"
    /\ qualityLevel = "draft"
    /\ qualityPresets.bloom /\ qualityPresets.desaturate
    /\ qualityPresets.hdri_sky /\ qualityPresets.depth_of_field

\* C22 as claimed: while a render request is outstanding the generate button
\* of the page is disabled, whatever events (upload completion, lot-card add
\* or remove, description input) are handled before the response.
C22_ButtonDisabledDuringRender ==
    /\ (page = "detail" /\ renderCalls # <<>>) => generateButtonDisabled
    /\ (page = "planning" /\ planningCalls # <<>>)
          => generatePlanningBtn.disabled

\* C23: under fair response delivery every accepted render submit on either
\* page leads to a state in which the in-flight flag is false and no request
\* is outstanding; in such a state a submit that passes the validation is
\* accepted again; and the flag is false whenever no request is outstanding,
\* whatever the outcome of the request.
C23_RenderFlagReleased ==
    /\ (step.sent = <<"detail-render">>)
          ~> (~isRendering /\ renderCalls = <<>>)
    /\ (step.sent = <<"render">>)
          ~> (~isPlanningRendering /\ planningCalls = <<>>)
    /\ [](renderCalls = <<>> => ~isRendering)
    /\ [](planningCalls = <<>> => ~isPlanningRendering)
    /\ [][(/\ ~isRendering
           /\ step'.click = "detail-render"
           /\ currentSketchImage # NULL
           /\ HasDescription) => step'.sent = <<"detail-render">>]_vars
    /\ [][(/\ ~isPlanningRendering
           /\ step'.click = "render"
           /\ currentSitePlanImage # NULL
           /\ currentLotMapImage # NULL
           /\ collectLotDescriptions(lotCards) # <<>>)
            => step'.sent = <<"render">>]_vars

\* a second render was accepted on the detail page after the first request
\* had succeeded and released the flag
C23_Witness ==
    /\ page = "detail"
    /\ step.sent = <<"detail-render">>
    /\ isRendering
    /\ Len(renderCalls) = 1
    /\ currentRenderedImage # NULL

\* C24 as claimed: when several files were selected in succession for one
\* upload slot of the planning page, the stored image is that of the most
\* recently selected file once all decode/resize and file-read steps have
\* completed, in whatever order they complete.  Stated on the step that
\* completes the slot's last outstanding upload: if the stored image is that
\* of the most recently selected file before the step, it still is after it.
C24_LatestFileStored ==
    [][\A slot \in {"sitePlan", "lotMap"} :
         LET stored(sp, lm) == IF slot = "sitePlan" THEN sp ELSE lm
             latest == BlobURL(Optimized(uploadInputs[slot]))
         IN (/\ uploadInputs[slot] # NoFile
             /\ uploadInputs'[slot] = uploadInputs[slot]
             /\ stored(currentSitePlanImage, currentLotMapImage) = latest
             /\ \A u \in uploads' : u.slot # slot)
              => stored(currentSitePlanImage', currentLotMapImage') = latest]_vars

----------------------------------------------------------------------------
(* Properties of reloading on the settings page *)

\* C25 as claimed: on the settings page the response of an older
\* loadSettings call that arrives after the response of a newer call has
\* been stored never overwrites that data: no step in which an overtaken
\* call settles changes currentSettings or the populated form.
C25_NewestLoadWins ==
    [][\A i \in DOMAIN loadCalls :
         (/\ loadCalls[i].overtaken
          /\ loadCalls[i].stage = "json"
          /\ loadCalls' = RemoveAt(Overtake(loadCalls, i), i))
            => /\ currentSettings' = currentSettings
               /\ settingsForm' = settingsForm]_vars

----------------------------------------------------------------------------
(* Properties of the lot cards of the planning page *)

\* C26 as claimed: on the planning page, whenever updateGenerateButton
\* leaves the generate button enabled and no request is outstanding, a click
\* on it passes the validation of generatePlanningRender and issues the
\* request.
C26_EnabledButtonSubmits ==
    [][(/\ page = "planning"
        /\ ~generatePlanningBtn.disabled
        /\ ~updateGenerateButton(currentSitePlanImage, currentLotMapImage,
                                 lotCards)
        /\ planningCalls = <<>>
        /\ ~isPlanningRendering
        /\ step'.click = "render")
          => /\ step'.sent = <<"render">>
             /\ Len(planningCalls') = 1]_vars

\* C27 as claimed: after any sequence of lot-card additions and removals in
\* which the user never edits a lot-number input, the lot numbers of the
\* cards in the container are pairwise distinct.  A card whose number differs
\* from every default number (only an edit leaves it blank) is left out.
C27_DefaultLotNumbersDistinct ==
    \A j, k \in DOMAIN lotCards :
        (/\ j # k
         /\ lotCards[j].number \in {Numeral(n) : n \in 1..MaxLots}
         /\ lotCards[k].number \in {Numeral(n) : n \in 1..MaxLots})
            => lotCards[j].number # lotCards[k].number

====
